---- MODULE Spec2Model ----
(***************************************************************************)
(* A model of the vibegb emulator core (crates/core/src/emu.rs): the       *)
(* register file, the timer, the bus with its memory-mapped registers and  *)
(* the LR35902 CPU with its interrupt pipeline, HALT/STOP states and the   *)
(* EI latency.  Every operation of the core is an operator over records    *)
(* that carry the fields of the Rust structs; one call of GameBoy::step is *)
(* one action.                                                             *)
(***************************************************************************)
EXTENDS Integers, Sequences, FiniteSets, TLC

VARIABLES cpu, bus, last, steps, requests

vars == <<cpu, bus, last, steps, requests>>

(***************************************************************************)
(* Fixed-width integer arithmetic (u8 / u16) and the bitwise operators.    *)
(***************************************************************************)
\* The operators &, | and ^ on one bit position after the other ...
RECURSIVE Bits(_, _, _)
Bits(op, x, y) ==
    IF x = 0 /\ y = 0 THEN 0
    ELSE (IF op = "and" THEN (x % 2) * (y % 2)
          ELSE IF op = "or" THEN (IF x % 2 = 1 \/ y % 2 = 1 THEN 1 ELSE 0)
          ELSE (x + y) % 2)
         + 2 * Bits(op, x \div 2, y \div 2)

\* ... tabulated on four-bit digits ...
And4 == [x \in 0..15, y \in 0..15 |-> Bits("and", x, y)]
Or4 == [x \in 0..15, y \in 0..15 |-> Bits("or", x, y)]
Xor4 == [x \in 0..15, y \in 0..15 |-> Bits("xor", x, y)]

\* ... and applied digit by digit to numbers of any width.
RECURSIVE BitAnd(_, _)
BitAnd(x, y) ==
    IF x = 0 \/ y = 0 THEN 0
    ELSE And4[x % 16, y % 16] + 16 * BitAnd(x \div 16, y \div 16)

RECURSIVE BitOr(_, _)
BitOr(x, y) ==
    IF x = 0 THEN y
    ELSE IF y = 0 THEN x
    ELSE Or4[x % 16, y % 16] + 16 * BitOr(x \div 16, y \div 16)

RECURSIVE BitXor(_, _)
BitXor(x, y) ==
    IF x = 0 THEN y
    ELSE IF y = 0 THEN x
    ELSE Xor4[x % 16, y % 16] + 16 * BitXor(x \div 16, y \div 16)

\* !x on a u8
Not8(x) == 255 - x

\* wrapping_add / wrapping_sub on u8 and u16
Wrap8(x) == x % 256
Wrap16(x) == x % 65536

\* u16::from_be_bytes([hi, lo]) / u16::from_le_bytes([lo, hi])
Word(hi, lo) == hi * 256 + lo
\* value.to_le_bytes() / to_be_bytes(): the two bytes of a u16
HiByte(value) == value \div 256
LoByte(value) == value % 256

\* `offset as i8 as i16 as u16`: sign extension of a byte to 16 bits
SignExtend(offset) == IF offset >= 128 THEN 65536 - 256 + offset ELSE offset

(***************************************************************************)
(* Addresses of the memory-mapped registers and the interrupt masks.       *)
(***************************************************************************)
DIV_ADDR == \hFF04
TIMA_ADDR == \hFF05
TMA_ADDR == \hFF06
TAC_ADDR == \hFF07
IF_ADDR == \hFF0F
IE_ADDR == \hFFFF
SB_ADDR == \hFF01
SC_ADDR == \hFF02

INTERRUPT_VBLANK == \h01
INTERRUPT_LCD == \h02
INTERRUPT_TIMER == \h04
INTERRUPT_SERIAL == \h08
INTERRUPT_JOYPAD == \h10

FLAG_Z == \h80
FLAG_N == \h40
FLAG_H == \h20
FLAG_C == \h10

(***************************************************************************)
(* Result<u32, EmuError>                                                   *)
(***************************************************************************)
Ok(cycles) == [ok |-> TRUE, value |-> cycles]
IllegalOpcode(opcode) == [ok |-> FALSE, value |-> opcode]

(***************************************************************************)
(* Registers                                                               *)
(***************************************************************************)
Registers_default ==
    [a |-> 0, b |-> 0, c |-> 0, d |-> 0, e |-> 0, h |-> 0, l |-> 0, f |-> 0]

af(regs) == Word(regs.a, BitAnd(regs.f, \hF0))
\* set_af storing the low byte unmasked
set_af_unmasked(regs, value) ==
    [regs EXCEPT !.a = HiByte(value), !.f = LoByte(value)]
set_af(regs, value) ==
    [regs EXCEPT !.a = HiByte(value), !.f = BitAnd(LoByte(value), \hF0)]
bc(regs) == Word(regs.b, regs.c)
set_bc(regs, value) == [regs EXCEPT !.b = HiByte(value), !.c = LoByte(value)]
de(regs) == Word(regs.d, regs.e)
set_de(regs, value) == [regs EXCEPT !.d = HiByte(value), !.e = LoByte(value)]
hl(regs) == Word(regs.h, regs.l)
set_hl(regs, value) == [regs EXCEPT !.h = HiByte(value), !.l = LoByte(value)]

flag_z(regs) == BitAnd(regs.f, FLAG_Z) # 0
flag_n(regs) == BitAnd(regs.f, FLAG_N) # 0
flag_h(regs) == BitAnd(regs.f, FLAG_H) # 0
flag_c(regs) == BitAnd(regs.f, FLAG_C) # 0

set_flag(regs, mask, value) ==
    LET f1 == IF value THEN BitOr(regs.f, mask) ELSE BitAnd(regs.f, Not8(mask))
    IN  [regs EXCEPT !.f = BitAnd(f1, \hF0)]

set_z(regs, value) == set_flag(regs, FLAG_Z, value)
set_n(regs, value) == set_flag(regs, FLAG_N, value)
set_h(regs, value) == set_flag(regs, FLAG_H, value)
set_c(regs, value) == set_flag(regs, FLAG_C, value)

\* the four flag setters in the order most ALU helpers call them
set_znhc(regs, z, n, h, c) == set_c(set_h(set_n(set_z(regs, z), n), h), c)

(***************************************************************************)
(* Timer.  overflow_reload_delay : Option<u8> is a set: {} is None and     *)
(* {d} is Some(d).                                                         *)
(***************************************************************************)
None == {}
Some(d) == {d}
Unwrap(opt) == CHOOSE d \in opt : TRUE

Timer_default ==
    [divider |-> 0, tima |-> 0, tma |-> 0, tac |-> 0,
     overflow_reload_delay |-> None]

div(timer) == timer.divider \div 256
\* tac_read without the `0xF8 |`: the unused bits read as 0
tac_read_low_bits(timer) == BitAnd(timer.tac, \h07)

tac_read(timer) == BitOr(\hF8, BitAnd(timer.tac, \h07))

selected_bit(timer) ==
    CASE BitAnd(timer.tac, \h03) = 0 -> 9
      [] BitAnd(timer.tac, \h03) = 1 -> 3
      [] BitAnd(timer.tac, \h03) = 2 -> 5
      [] BitAnd(timer.tac, \h03) = 3 -> 7

\* timer_input with the enable bit of TAC not looked at
timer_input_ignoring_enable(timer, divider) ==
    BitAnd(divider, 2 ^ selected_bit(timer)) # 0

timer_input(timer, divider) ==
    /\ BitAnd(timer.tac, \h04) # 0
    /\ BitAnd(divider, 2 ^ selected_bit(timer)) # 0

\* increment_tima with a reload delay of 3 cycles
increment_tima_delay_of_three(timer) ==
    IF timer.tima = \hFF
    THEN [timer EXCEPT !.tima = 0, !.overflow_reload_delay = Some(3)]
    ELSE [timer EXCEPT !.tima = Wrap8(timer.tima + 1)]

increment_tima(timer) ==
    IF timer.tima = \hFF
    THEN [timer EXCEPT !.tima = 0, !.overflow_reload_delay = Some(4)]
    ELSE [timer EXCEPT !.tima = Wrap8(timer.tima + 1)]

\* write_div that resets the divider and does not look for a falling edge
write_div_without_edge(timer) == [timer EXCEPT !.divider = 0]

write_div(timer) ==
    LET previous_input == timer_input(timer, timer.divider)
        t1 == [timer EXCEPT !.divider = 0]
        next_input == timer_input(t1, t1.divider)
    IN  IF previous_input /\ ~next_input THEN increment_tima(t1) ELSE t1

\* write_tima that leaves a pending reload pending
write_tima_keeping_delay(timer, value) == [timer EXCEPT !.tima = value]

write_tima(timer, value) ==
    [timer EXCEPT !.tima = value, !.overflow_reload_delay = None]

write_tma(timer, value) == [timer EXCEPT !.tma = value]

write_tac(timer, value) ==
    LET previous_input == timer_input(timer, timer.divider)
        t1 == [timer EXCEPT !.tac = BitAnd(value, \h07)]
        next_input == timer_input(t1, t1.divider)
    IN  IF previous_input /\ ~next_input THEN increment_tima(t1) ELSE t1

\* The timer operations that take `interrupt_flags: &mut u8` work on the
\* pair [timer, interrupt_flags].
\* handle_reload requesting the interrupt one cycle before the reload, on
\* the cycle that counts the delay down to 0
handle_reload_requesting_early(tf) ==
    IF tf.timer.overflow_reload_delay # None
    THEN LET delay == Unwrap(tf.timer.overflow_reload_delay)
         IN  IF delay = 0
             THEN IF tf.timer.tima = 0
                  THEN [timer |-> [tf.timer EXCEPT !.tima = tf.timer.tma,
                                                   !.overflow_reload_delay = None],
                        interrupt_flags |-> BitOr(tf.interrupt_flags, INTERRUPT_TIMER)]
                  ELSE [tf EXCEPT !.timer.overflow_reload_delay = None]
             ELSE [timer |-> [tf.timer EXCEPT !.overflow_reload_delay = Some(delay - 1)],
                   interrupt_flags |->
                       IF delay = 1 THEN BitOr(tf.interrupt_flags, INTERRUPT_TIMER)
                       ELSE tf.interrupt_flags]
    ELSE tf

handle_reload(tf) ==
    IF tf.timer.overflow_reload_delay # None
    THEN LET delay == Unwrap(tf.timer.overflow_reload_delay)
         IN  IF delay = 0
             THEN IF tf.timer.tima = 0
                  THEN [timer |-> [tf.timer EXCEPT !.tima = tf.timer.tma,
                                                   !.overflow_reload_delay = None],
                        interrupt_flags |-> BitOr(tf.interrupt_flags, INTERRUPT_TIMER)]
                  ELSE [tf EXCEPT !.timer.overflow_reload_delay = None]
             ELSE [tf EXCEPT !.timer.overflow_reload_delay = Some(delay - 1)]
    ELSE tf

tick_one(tf) ==
    LET previous_input == timer_input(tf.timer, tf.timer.divider)
        t1 == [tf.timer EXCEPT !.divider = Wrap16(tf.timer.divider + 1)]
        next_input == timer_input(t1, t1.divider)
        t2 == IF previous_input /\ ~next_input THEN increment_tima(t1) ELSE t1
    IN  handle_reload([tf EXCEPT !.timer = t2])

RECURSIVE Timer_tick(_, _)
Timer_tick(tf, cycles) ==
    IF cycles = 0 THEN tf ELSE Timer_tick(tick_one(tf), cycles - 1)

(***************************************************************************)
(* Bus.  memory : [u8; 0x10000] starts zeroed; the model keeps the cells   *)
(* that are not zero (a function from their addresses), so the value of    *)
(* every one of the 65536 cells is determined.                             *)
(***************************************************************************)
Memory_zeroed == [address \in {} |-> 0]

mem_get(memory, address) ==
    IF address \in DOMAIN memory THEN memory[address] ELSE 0

mem_set(memory, address, value) ==
    IF value = 0
    THEN [x \in DOMAIN memory \ {address} |-> memory[x]]
    ELSE [x \in DOMAIN memory \cup {address} |->
             IF x = address THEN value ELSE memory[x]]

Bus_default ==
    [memory |-> Memory_zeroed, timer |-> Timer_default,
     interrupt_enable |-> 0, interrupt_flags |-> 0, serial_output |-> <<>>]

read_byte(b, address) ==
    CASE address = DIV_ADDR -> div(b.timer)
      [] address = TIMA_ADDR -> b.timer.tima
      [] address = TMA_ADDR -> b.timer.tma
      [] address = TAC_ADDR -> tac_read(b.timer)
      [] address = IF_ADDR -> BitOr(\hE0, BitAnd(b.interrupt_flags, \h1F))
      [] address = IE_ADDR -> BitAnd(b.interrupt_enable, \h1F)
      [] OTHER -> mem_get(b.memory, address)

\* write_byte with the transfer started by bit 7 alone, whatever the clock
\* select bit
write_byte_capturing_on_bit_7(b, address, value) ==
    CASE address = DIV_ADDR -> [b EXCEPT !.timer = write_div(b.timer)]
      [] address = TIMA_ADDR -> [b EXCEPT !.timer = write_tima(b.timer, value)]
      [] address = TMA_ADDR -> [b EXCEPT !.timer = write_tma(b.timer, value)]
      [] address = TAC_ADDR -> [b EXCEPT !.timer = write_tac(b.timer, value)]
      [] address = IF_ADDR -> [b EXCEPT !.interrupt_flags = BitAnd(value, \h1F)]
      [] address = IE_ADDR -> [b EXCEPT !.interrupt_enable = BitAnd(value, \h1F)]
      [] address = SB_ADDR -> [b EXCEPT !.memory = mem_set(b.memory, SB_ADDR, value)]
      [] address = SC_ADDR ->
            IF BitAnd(value, \h80) = \h80
            THEN [b EXCEPT
                    !.serial_output = Append(b.serial_output, mem_get(b.memory, SB_ADDR)),
                    !.memory = mem_set(b.memory, SC_ADDR, BitAnd(value, Not8(\h80)))]
            ELSE [b EXCEPT !.memory = mem_set(b.memory, SC_ADDR, value)]
      [] OTHER -> [b EXCEPT !.memory = mem_set(b.memory, address, value)]

write_byte(b, address, value) ==
    CASE address = DIV_ADDR -> [b EXCEPT !.timer = write_div(b.timer)]
      [] address = TIMA_ADDR -> [b EXCEPT !.timer = write_tima(b.timer, value)]
      [] address = TMA_ADDR -> [b EXCEPT !.timer = write_tma(b.timer, value)]
      [] address = TAC_ADDR -> [b EXCEPT !.timer = write_tac(b.timer, value)]
      [] address = IF_ADDR -> [b EXCEPT !.interrupt_flags = BitAnd(value, \h1F)]
      [] address = IE_ADDR -> [b EXCEPT !.interrupt_enable = BitAnd(value, \h1F)]
      [] address = SB_ADDR -> [b EXCEPT !.memory = mem_set(b.memory, SB_ADDR, value)]
      [] address = SC_ADDR ->
            IF BitAnd(value, \h81) = \h81
            THEN [b EXCEPT
                    !.serial_output = Append(b.serial_output, mem_get(b.memory, SB_ADDR)),
                    !.memory = mem_set(b.memory, SC_ADDR, BitAnd(value, Not8(\h80)))]
            ELSE [b EXCEPT !.memory = mem_set(b.memory, SC_ADDR, value)]
      [] OTHER -> [b EXCEPT !.memory = mem_set(b.memory, address, value)]

read_word(b, address) ==
    Word(read_byte(b, Wrap16(address + 1)), read_byte(b, address))

write_word(b, address, value) ==
    write_byte(write_byte(b, address, LoByte(value)),
               Wrap16(address + 1), HiByte(value))

\* load_from without the `min`: the copy wraps to 0x0000 past 0xFFFF
RECURSIVE load_from_wrapping(_, _, _, _)
load_from_wrapping(memory, start, data, i) ==
    IF i > Len(data) THEN memory
    ELSE load_from_wrapping(mem_set(memory, (start + i - 1) % 65536, data[i]),
                            start, data, i + 1)

\* data is a sequence of bytes; cells past 0xFFFF are dropped
RECURSIVE load_from(_, _, _, _)
load_from(memory, start, data, i) ==
    IF i > Len(data) \/ start + i - 1 >= 65536 THEN memory
    ELSE load_from(mem_set(memory, start + i - 1, data[i]), start, data, i + 1)

load_bytes(b, start, data) ==
    [b EXCEPT !.memory = load_from(b.memory, start, data, 1)]

Bus_tick(b, cycles) ==
    LET With(tf) ==
            [b EXCEPT !.timer = tf.timer, !.interrupt_flags = tf.interrupt_flags]
    IN  With(Timer_tick([timer |-> b.timer, interrupt_flags |-> b.interrupt_flags],
                        cycles))

pending_interrupts(b) ==
    BitAnd(BitAnd(b.interrupt_enable, b.interrupt_flags), \h1F)

request_interrupt(b, mask) ==
    [b EXCEPT !.interrupt_flags = BitOr(b.interrupt_flags, BitAnd(mask, \h1F))]

clear_interrupt(b, mask) ==
    [b EXCEPT !.interrupt_flags =
                 BitAnd(b.interrupt_flags, Not8(BitAnd(mask, \h1F)))]

serial_output(b) == b.serial_output

\* take_serial_output handing out a copy and keeping the buffer
take_serial_output_keeping_buffer(b) == [bus |-> b, output |-> b.serial_output]

take_serial_output(b) ==
    [bus |-> [b EXCEPT !.serial_output = <<>>], output |-> b.serial_output]

(***************************************************************************)
(* Cpu: state, operand access and the flag arithmetic.  An operation that  *)
(* takes `&mut self` returns the new cpu (and what it computes) as a       *)
(* record.                                                                 *)
(***************************************************************************)
Cpu_default ==
    [regs |-> Registers_default, pc |-> \h0000, sp |-> \hFFFE, ime |-> FALSE,
     halted |-> FALSE, stopped |-> FALSE, ime_delay |-> 0, halt_bug |-> FALSE]

GameBoy_default == [cpu |-> Cpu_default, bus |-> Bus_default]

with_program(start, program) ==
    [cpu |-> [Cpu_default EXCEPT !.pc = start],
     bus |-> load_bytes(Bus_default, start, program)]

load_rom(gb, rom_data) ==
    [cpu |-> [gb.cpu EXCEPT !.pc = \h0100, !.sp = \hFFFE],
     bus |-> load_bytes(gb.bus, \h0000, rom_data)]

\* condition reading Z for every code: NC decoded as NZ and C as Z
condition_from_zero_only(c, code) ==
    IF BitAnd(code, \h01) = 0 THEN ~flag_z(c.regs) ELSE flag_z(c.regs)

condition(c, code) ==
    CASE BitAnd(code, \h03) = 0 -> ~flag_z(c.regs)
      [] BitAnd(code, \h03) = 1 -> flag_z(c.regs)
      [] BitAnd(code, \h03) = 2 -> ~flag_c(c.regs)
      [] BitAnd(code, \h03) = 3 -> flag_c(c.regs)

\* fetch_byte with halt_bug not looked at: every fetch advances PC
fetch_byte_always_advancing(c, b) ==
    [cpu |-> [c EXCEPT !.pc = Wrap16(c.pc + 1)], byte |-> read_byte(b, c.pc)]

\* fetch_byte leaving halt_bug set after the non-advancing fetch
fetch_byte_keeping_halt_bug(c, b) ==
    IF c.halt_bug
    THEN [cpu |-> c, byte |-> read_byte(b, c.pc)]
    ELSE [cpu |-> [c EXCEPT !.pc = Wrap16(c.pc + 1)], byte |-> read_byte(b, c.pc)]

fetch_byte(c, b) ==
    IF c.halt_bug
    THEN [cpu |-> [c EXCEPT !.halt_bug = FALSE], byte |-> read_byte(b, c.pc)]
    ELSE [cpu |-> [c EXCEPT !.pc = Wrap16(c.pc + 1)], byte |-> read_byte(b, c.pc)]

fetch_word(c, b) ==
    LET High(lo, hi) == [cpu |-> hi.cpu, word |-> Word(hi.byte, lo.byte)]
        Low(lo) == High(lo, fetch_byte(lo.cpu, b))
    IN  Low(fetch_byte(c, b))

\* push_word writing both bytes at SP - 1, the low byte over the high one
push_word_at_one_address(c, b, value) ==
    LET sp1 == Wrap16(c.sp + 65535)
        b1 == write_byte(b, sp1, HiByte(value))
        sp2 == Wrap16(sp1 + 65535)
        b2 == write_byte(b1, sp1, LoByte(value))
    IN  [cpu |-> [c EXCEPT !.sp = sp2], bus |-> b2]

push_word(c, b, value) ==
    LET sp1 == Wrap16(c.sp + 65535)
        sp2 == Wrap16(sp1 + 65535)
        b1 == write_byte(b, sp1, HiByte(value))
        b2 == write_byte(b1, sp2, LoByte(value))
    IN  [cpu |-> [c EXCEPT !.sp = sp2], bus |-> b2]

\* pop_word taking the high byte first
pop_word_high_first(c, b) ==
    LET hi == read_byte(b, c.sp)
        sp1 == Wrap16(c.sp + 1)
        lo == read_byte(b, sp1)
        sp2 == Wrap16(sp1 + 1)
    IN  [cpu |-> [c EXCEPT !.sp = sp2], word |-> Word(hi, lo)]

pop_word(c, b) ==
    LET lo == read_byte(b, c.sp)
        sp1 == Wrap16(c.sp + 1)
        hi == read_byte(b, sp1)
        sp2 == Wrap16(sp1 + 1)
    IN  [cpu |-> [c EXCEPT !.sp = sp2], word |-> Word(hi, lo)]

\* read_r8 taking the (HL) operand from the backing array, not through
\* read_byte
read_r8_from_memory(c, b, index) ==
    CASE BitAnd(index, \h07) = 0 -> c.regs.b
      [] BitAnd(index, \h07) = 1 -> c.regs.c
      [] BitAnd(index, \h07) = 2 -> c.regs.d
      [] BitAnd(index, \h07) = 3 -> c.regs.e
      [] BitAnd(index, \h07) = 4 -> c.regs.h
      [] BitAnd(index, \h07) = 5 -> c.regs.l
      [] BitAnd(index, \h07) = 6 -> mem_get(b.memory, hl(c.regs))
      [] BitAnd(index, \h07) = 7 -> c.regs.a

read_r8(c, b, index) ==
    CASE BitAnd(index, \h07) = 0 -> c.regs.b
      [] BitAnd(index, \h07) = 1 -> c.regs.c
      [] BitAnd(index, \h07) = 2 -> c.regs.d
      [] BitAnd(index, \h07) = 3 -> c.regs.e
      [] BitAnd(index, \h07) = 4 -> c.regs.h
      [] BitAnd(index, \h07) = 5 -> c.regs.l
      [] BitAnd(index, \h07) = 6 -> read_byte(b, hl(c.regs))
      [] BitAnd(index, \h07) = 7 -> c.regs.a

write_r8(c, b, index, value) ==
    CASE BitAnd(index, \h07) = 0 -> [cpu |-> [c EXCEPT !.regs.b = value], bus |-> b]
      [] BitAnd(index, \h07) = 1 -> [cpu |-> [c EXCEPT !.regs.c = value], bus |-> b]
      [] BitAnd(index, \h07) = 2 -> [cpu |-> [c EXCEPT !.regs.d = value], bus |-> b]
      [] BitAnd(index, \h07) = 3 -> [cpu |-> [c EXCEPT !.regs.e = value], bus |-> b]
      [] BitAnd(index, \h07) = 4 -> [cpu |-> [c EXCEPT !.regs.h = value], bus |-> b]
      [] BitAnd(index, \h07) = 5 -> [cpu |-> [c EXCEPT !.regs.l = value], bus |-> b]
      [] BitAnd(index, \h07) = 6 ->
            [cpu |-> c, bus |-> write_byte(b, hl(c.regs), value)]
      [] BitAnd(index, \h07) = 7 -> [cpu |-> [c EXCEPT !.regs.a = value], bus |-> b]

\* u8::from(bool)
FromBool(x) == IF x THEN 1 ELSE 0

inc8(regs, value) ==
    LET result == Wrap8(value + 1)
        r1 == set_z(regs, result = 0)
        r2 == set_n(r1, FALSE)
        r3 == set_h(r2, BitAnd(value, \h0F) + 1 > \h0F)
    IN  [regs |-> r3, result |-> result]

dec8(regs, value) ==
    LET result == Wrap8(value + 255)
        r1 == set_z(regs, result = 0)
        r2 == set_n(r1, TRUE)
        r3 == set_h(r2, BitAnd(value, \h0F) = 0)
    IN  [regs |-> r3, result |-> result]

add_a(regs, value, with_carry) ==
    LET carry_in == FromBool(with_carry /\ flag_c(regs))
        a == regs.a
        result == Wrap8(Wrap8(a + value) + carry_in)
        r1 == set_znhc(regs, result = 0, FALSE,
                       BitAnd(a, \h0F) + BitAnd(value, \h0F) + carry_in > \h0F,
                       a + value + carry_in > \hFF)
    IN  [r1 EXCEPT !.a = result]

sub_a(regs, value, with_carry) ==
    LET carry_in == FromBool(with_carry /\ flag_c(regs))
        a == regs.a
        result == Wrap8(Wrap8(a + 256 - value) + 256 - carry_in)
        r1 == set_znhc(regs, result = 0, TRUE,
                       BitAnd(a, \h0F) < BitAnd(value, \h0F) + carry_in,
                       a < value + carry_in)
    IN  [r1 EXCEPT !.a = result]

and_a(regs, value) ==
    LET r1 == [regs EXCEPT !.a = BitAnd(regs.a, value)]
    IN  set_znhc(r1, r1.a = 0, FALSE, TRUE, FALSE)

xor_a(regs, value) ==
    LET r1 == [regs EXCEPT !.a = BitXor(regs.a, value)]
    IN  set_znhc(r1, r1.a = 0, FALSE, FALSE, FALSE)

or_a(regs, value) ==
    LET r1 == [regs EXCEPT !.a = BitOr(regs.a, value)]
    IN  set_znhc(r1, r1.a = 0, FALSE, FALSE, FALSE)

cp_a(regs, value) ==
    LET a == regs.a
        result == Wrap8(a + 256 - value)
    IN  set_znhc(regs, result = 0, TRUE,
                 BitAnd(a, \h0F) < BitAnd(value, \h0F), a < value)

add_hl(regs, value) ==
    LET h_l == hl(regs)
        result == Wrap16(h_l + value)
        r1 == set_n(regs, FALSE)
        r2 == set_h(r1, BitAnd(h_l, \h0FFF) + BitAnd(value, \h0FFF) > \h0FFF)
        r3 == set_c(r2, h_l + value > \hFFFF)
    IN  set_hl(r3, result)

\* daa taking the carry from the high correction alone: C is cleared when
\* no 0x60 is added
daa_clearing_carry(regs) ==
    LET carry0 == flag_c(regs)
        a0 == regs.a
        low == ~flag_n(regs) /\ (flag_h(regs) \/ BitAnd(a0, \h0F) > \h09)
        high == ~flag_n(regs) /\ (carry0 \/ a0 > \h99)
        correction ==
            IF ~flag_n(regs)
            THEN BitOr(IF low THEN \h06 ELSE 0, IF high THEN \h60 ELSE 0)
            ELSE BitOr(IF flag_h(regs) THEN \h06 ELSE 0, IF carry0 THEN \h60 ELSE 0)
        a == IF ~flag_n(regs) THEN Wrap8(a0 + correction)
             ELSE Wrap8(a0 + 256 - correction)
        r1 == [regs EXCEPT !.a = a]
        r2 == set_z(r1, a = 0)
        r3 == set_h(r2, FALSE)
    IN  set_c(r3, high)

daa(regs) ==
    LET carry0 == flag_c(regs)
        a0 == regs.a
        low == ~flag_n(regs) /\ (flag_h(regs) \/ BitAnd(a0, \h0F) > \h09)
        high == ~flag_n(regs) /\ (carry0 \/ a0 > \h99)
        correction ==
            IF ~flag_n(regs)
            THEN BitOr(IF low THEN \h06 ELSE 0, IF high THEN \h60 ELSE 0)
            ELSE BitOr(IF flag_h(regs) THEN \h06 ELSE 0, IF carry0 THEN \h60 ELSE 0)
        carry == carry0 \/ high
        a == IF ~flag_n(regs) THEN Wrap8(a0 + correction)
             ELSE Wrap8(a0 + 256 - correction)
        r1 == [regs EXCEPT !.a = a]
        r2 == set_z(r1, a = 0)
        r3 == set_h(r2, FALSE)
    IN  set_c(r3, carry)

set_rotate_flags(regs, result, carry, set_zero) ==
    set_znhc(regs, set_zero /\ result = 0, FALSE, FALSE, carry)

rlc(regs, value, set_zero) ==
    LET carry == BitAnd(value, \h80) # 0
        result == BitOr(Wrap8(value * 2), FromBool(carry))
    IN  [regs |-> set_rotate_flags(regs, result, carry, set_zero), result |-> result]

rrc(regs, value, set_zero) ==
    LET carry == BitAnd(value, \h01) # 0
        result == BitOr(value \div 2, IF carry THEN \h80 ELSE 0)
    IN  [regs |-> set_rotate_flags(regs, result, carry, set_zero), result |-> result]

rl(regs, value, set_zero) ==
    LET carry_in == FromBool(flag_c(regs))
        carry == BitAnd(value, \h80) # 0
        result == BitOr(Wrap8(value * 2), carry_in)
    IN  [regs |-> set_rotate_flags(regs, result, carry, set_zero), result |-> result]

rr(regs, value, set_zero) ==
    LET carry_in == IF flag_c(regs) THEN \h80 ELSE 0
        carry == BitAnd(value, \h01) # 0
        result == BitOr(value \div 2, carry_in)
    IN  [regs |-> set_rotate_flags(regs, result, carry, set_zero), result |-> result]

sla(regs, value) ==
    LET carry == BitAnd(value, \h80) # 0
        result == Wrap8(value * 2)
    IN  [regs |-> set_rotate_flags(regs, result, carry, TRUE), result |-> result]

sra(regs, value) ==
    LET carry == BitAnd(value, \h01) # 0
        result == BitOr(value \div 2, BitAnd(value, \h80))
    IN  [regs |-> set_rotate_flags(regs, result, carry, TRUE), result |-> result]

srl(regs, value) ==
    LET carry == BitAnd(value, \h01) # 0
        result == value \div 2
    IN  [regs |-> set_rotate_flags(regs, result, carry, TRUE), result |-> result]

swap(regs, value) ==
    LET result == Wrap8(value * 16) + value \div 16
    IN  [regs |-> set_znhc(regs, result = 0, FALSE, FALSE, FALSE), result |-> result]

add_signed_u16(base, offset) == Wrap16(base + SignExtend(offset))

\* add_sp_offset with the carry taken out of bit 15 of the 16-bit sum
add_sp_offset_carry_from_bit_15(sp, offset) ==
    LET signed == SignExtend(offset)
        result == Wrap16(sp + signed)
        x == BitXor(BitXor(sp, signed), result)
    IN  [result |-> result,
         half_carry |-> BitAnd(x, \h0010) # 0,
         carry |-> sp + signed > \hFFFF]

add_sp_offset(sp, offset) ==
    LET signed == SignExtend(offset)
        result == Wrap16(sp + signed)
        x == BitXor(BitXor(sp, signed), result)
    IN  [result |-> result,
         half_carry |-> BitAnd(x, \h0010) # 0,
         carry |-> BitAnd(x, \h0100) # 0]

(***************************************************************************)
(* Cpu: instruction execution.  execute_base and execute_cb return the new *)
(* cpu, the new bus and the Result of the instruction.  Where the code     *)
(* binds the result of a call to a local (`let value = self.fetch_word`),  *)
(* the model passes it to a local operator (With, Then) of the rest of the *)
(* arm.                                                                    *)
(***************************************************************************)
Done(c, b, cycles) == [cpu |-> c, bus |-> b, ret |-> Ok(cycles)]
Failed(c, b, opcode) == [cpu |-> c, bus |-> b, ret |-> IllegalOpcode(opcode)]

\* `self.regs = ...` on a cpu
WithRegs(c, regs) == [c EXCEPT !.regs = regs]

\* cb_write_back with the cost of a register operand for (HL) too
cb_write_back_costing_8(c, b, register, rot) ==
    LET With(w) == Done(w.cpu, w.bus, 8)
    IN  With(write_r8(WithRegs(c, rot.regs), b, register, rot.result))

\* the arms of execute_cb that compute a value and write it back
cb_write_back(c, b, register, rot) ==
    LET With(w) == Done(w.cpu, w.bus, IF register = 6 THEN 16 ELSE 8)
    IN  With(write_r8(WithRegs(c, rot.regs), b, register, rot.result))

execute_cb_value(c, b, opcode, register, value, bit) ==
    CASE opcode \in \h00..\h07 -> cb_write_back(c, b, register, rlc(c.regs, value, TRUE))
      [] opcode \in \h08..\h0F -> cb_write_back(c, b, register, rrc(c.regs, value, TRUE))
      [] opcode \in \h10..\h17 -> cb_write_back(c, b, register, rl(c.regs, value, TRUE))
      [] opcode \in \h18..\h1F -> cb_write_back(c, b, register, rr(c.regs, value, TRUE))
      [] opcode \in \h20..\h27 -> cb_write_back(c, b, register, sla(c.regs, value))
      [] opcode \in \h28..\h2F -> cb_write_back(c, b, register, sra(c.regs, value))
      [] opcode \in \h30..\h37 -> cb_write_back(c, b, register, swap(c.regs, value))
      [] opcode \in \h38..\h3F -> cb_write_back(c, b, register, srl(c.regs, value))
      [] opcode \in \h40..\h7F ->
            Done(WithRegs(c, set_h(set_n(set_z(c.regs, BitAnd(value, 2 ^ bit) = 0),
                                         FALSE), TRUE)),
                 b, IF register = 6 THEN 12 ELSE 8)
      [] opcode \in \h80..\hBF ->
            cb_write_back(c, b, register,
                          [regs |-> c.regs, result |-> BitAnd(value, Not8(2 ^ bit))])
      [] opcode \in \hC0..\hFF ->
            cb_write_back(c, b, register,
                          [regs |-> c.regs, result |-> BitOr(value, 2 ^ bit)])

execute_cb(c, b, opcode) ==
    execute_cb_value(c, b, opcode, BitAnd(opcode, \h07),
                     read_r8(c, b, BitAnd(opcode, \h07)),
                     BitAnd(opcode \div 8, \h07))

\* 0x80..=0xBF and the ALU A,d8 opcodes: the operation on A
alu_a(regs, operation, value) ==
    CASE operation = 0 -> add_a(regs, value, FALSE)
      [] operation = 1 -> add_a(regs, value, TRUE)
      [] operation = 2 -> sub_a(regs, value, FALSE)
      [] operation = 3 -> sub_a(regs, value, TRUE)
      [] operation = 4 -> and_a(regs, value)
      [] operation = 5 -> xor_a(regs, value)
      [] operation = 6 -> or_a(regs, value)
      [] operation = 7 -> cp_a(regs, value)

\* `self.regs.a = self.rlc(self.regs.a, false)` and its like
rotate_a(c, b, rot) == Done(WithRegs(c, [rot.regs EXCEPT !.a = rot.result]), b, 4)

\* STOP as a one-byte instruction: the padding byte is not fetched
execute_base_STOP_without_padding(c, b) == Done([c EXCEPT !.stopped = TRUE], b, 4)

\* 0x10 STOP: the padding byte is fetched and dropped
execute_base_STOP(c, b) ==
    LET With(fb) == Done([fb.cpu EXCEPT !.stopped = TRUE], b, 4)
    IN  With(fetch_byte(c, b))

\* HALT costing no cycle when it halts
execute_base_HALT_costing_nothing(c, b) ==
    IF c.ime THEN Done([c EXCEPT !.halted = TRUE], b, 0)
    ELSE IF pending_interrupts(b) # 0 THEN Done([c EXCEPT !.halt_bug = TRUE], b, 4)
    ELSE Done([c EXCEPT !.halted = TRUE], b, 0)

\* 0x76 HALT
execute_base_HALT(c, b) ==
    IF c.ime THEN Done([c EXCEPT !.halted = TRUE], b, 4)
    ELSE IF pending_interrupts(b) # 0 THEN Done([c EXCEPT !.halt_bug = TRUE], b, 4)
    ELSE Done([c EXCEPT !.halted = TRUE], b, 4)

\* DI clearing IME and leaving a running EI delay alone
execute_base_DI_keeping_delay(c, b) == Done([c EXCEPT !.ime = FALSE], b, 4)

\* 0xF3 DI
execute_base_DI(c, b) == Done([c EXCEPT !.ime = FALSE, !.ime_delay = 0], b, 4)

\* EI taking effect at once, with no delay
execute_base_EI_without_delay(c, b) == Done([c EXCEPT !.ime = TRUE], b, 4)

\* 0xFB EI
execute_base_EI(c, b) == Done([c EXCEPT !.ime_delay = 2], b, 4)

\* the arms that write the result of inc8 / dec8 / fetch_byte back to r
write_back(c, b, register, regs, result, cycles_hl, cycles_reg) ==
    LET With(w) == Done(w.cpu, w.bus, IF register = 6 THEN cycles_hl ELSE cycles_reg)
    IN  With(write_r8(WithRegs(c, regs), b, register, result))

\* opcodes 0x00..=0x3F
execute_base_00_3F(c, b, opcode) ==
    LET register == BitAnd(opcode \div 8, \h07)
    IN
    CASE opcode = \h00 -> Done(c, b, 4)
      [] opcode \in {\h01, \h11, \h21, \h31} ->
            LET With(fw) ==
                    CASE opcode = \h01 -> Done(WithRegs(fw.cpu, set_bc(fw.cpu.regs, fw.word)), b, 12)
                      [] opcode = \h11 -> Done(WithRegs(fw.cpu, set_de(fw.cpu.regs, fw.word)), b, 12)
                      [] opcode = \h21 -> Done(WithRegs(fw.cpu, set_hl(fw.cpu.regs, fw.word)), b, 12)
                      [] opcode = \h31 -> Done([fw.cpu EXCEPT !.sp = fw.word], b, 12)
            IN  With(fetch_word(c, b))
      [] opcode = \h02 -> Done(c, write_byte(b, bc(c.regs), c.regs.a), 8)
      [] opcode = \h12 -> Done(c, write_byte(b, de(c.regs), c.regs.a), 8)
      [] opcode = \h22 ->
            Done(WithRegs(c, set_hl(c.regs, Wrap16(hl(c.regs) + 1))),
                 write_byte(b, hl(c.regs), c.regs.a), 8)
      [] opcode = \h32 ->
            Done(WithRegs(c, set_hl(c.regs, Wrap16(hl(c.regs) + 65535))),
                 write_byte(b, hl(c.regs), c.regs.a), 8)
      [] opcode = \h03 -> Done(WithRegs(c, set_bc(c.regs, Wrap16(bc(c.regs) + 1))), b, 8)
      [] opcode = \h13 -> Done(WithRegs(c, set_de(c.regs, Wrap16(de(c.regs) + 1))), b, 8)
      [] opcode = \h23 -> Done(WithRegs(c, set_hl(c.regs, Wrap16(hl(c.regs) + 1))), b, 8)
      [] opcode = \h33 -> Done([c EXCEPT !.sp = Wrap16(c.sp + 1)], b, 8)
      [] BitAnd(opcode, \hC7) = \h04 ->
            LET With(r) == write_back(c, b, register, r.regs, r.result, 12, 4)
            IN  With(inc8(c.regs, read_r8(c, b, register)))
      [] BitAnd(opcode, \hC7) = \h05 ->
            LET With(r) == write_back(c, b, register, r.regs, r.result, 12, 4)
            IN  With(dec8(c.regs, read_r8(c, b, register)))
      [] BitAnd(opcode, \hC7) = \h06 ->
            LET With(fb) == write_back(fb.cpu, b, register, fb.cpu.regs, fb.byte, 12, 8)
            IN  With(fetch_byte(c, b))
      [] opcode = \h07 -> rotate_a(c, b, rlc(c.regs, c.regs.a, FALSE))
      [] opcode = \h08 ->
            LET With(fw) == Done(fw.cpu, write_word(b, fw.word, fw.cpu.sp), 20)
            IN  With(fetch_word(c, b))
      [] opcode = \h09 -> Done(WithRegs(c, add_hl(c.regs, bc(c.regs))), b, 8)
      [] opcode = \h19 -> Done(WithRegs(c, add_hl(c.regs, de(c.regs))), b, 8)
      [] opcode = \h29 -> Done(WithRegs(c, add_hl(c.regs, hl(c.regs))), b, 8)
      [] opcode = \h39 -> Done(WithRegs(c, add_hl(c.regs, c.sp)), b, 8)
      [] opcode = \h0A -> Done([c EXCEPT !.regs.a = read_byte(b, bc(c.regs))], b, 8)
      [] opcode = \h1A -> Done([c EXCEPT !.regs.a = read_byte(b, de(c.regs))], b, 8)
      [] opcode = \h2A ->
            Done(WithRegs(c, set_hl([c.regs EXCEPT !.a = read_byte(b, hl(c.regs))],
                                    Wrap16(hl(c.regs) + 1))), b, 8)
      [] opcode = \h3A ->
            Done(WithRegs(c, set_hl([c.regs EXCEPT !.a = read_byte(b, hl(c.regs))],
                                    Wrap16(hl(c.regs) + 65535))), b, 8)
      [] opcode = \h0B -> Done(WithRegs(c, set_bc(c.regs, Wrap16(bc(c.regs) + 65535))), b, 8)
      [] opcode = \h1B -> Done(WithRegs(c, set_de(c.regs, Wrap16(de(c.regs) + 65535))), b, 8)
      [] opcode = \h2B -> Done(WithRegs(c, set_hl(c.regs, Wrap16(hl(c.regs) + 65535))), b, 8)
      [] opcode = \h3B -> Done([c EXCEPT !.sp = Wrap16(c.sp + 65535)], b, 8)
      [] opcode = \h0F -> rotate_a(c, b, rrc(c.regs, c.regs.a, FALSE))
      [] opcode = \h10 -> execute_base_STOP(c, b)
      [] opcode = \h17 -> rotate_a(c, b, rl(c.regs, c.regs.a, FALSE))
      [] opcode = \h18 ->
            LET With(fb) ==
                    Done([fb.cpu EXCEPT !.pc = add_signed_u16(fb.cpu.pc, fb.byte)], b, 12)
            IN  With(fetch_byte(c, b))
      [] opcode \in {\h20, \h28, \h30, \h38} ->
            LET With(fb) ==
                    IF condition(fb.cpu, BitAnd(opcode \div 8, \h03))
                    THEN Done([fb.cpu EXCEPT !.pc = add_signed_u16(fb.cpu.pc, fb.byte)],
                              b, 12)
                    ELSE Done(fb.cpu, b, 8)
            IN  With(fetch_byte(c, b))
      [] opcode = \h1F -> rotate_a(c, b, rr(c.regs, c.regs.a, FALSE))
      [] opcode = \h27 -> Done(WithRegs(c, daa(c.regs)), b, 4)
      [] opcode = \h2F ->
            Done(WithRegs(c, set_h(set_n([c.regs EXCEPT !.a = Not8(c.regs.a)], TRUE),
                                   TRUE)), b, 4)
      [] opcode = \h37 ->
            Done(WithRegs(c, set_c(set_h(set_n(c.regs, FALSE), FALSE), TRUE)), b, 4)
      [] opcode = \h3F ->
            Done(WithRegs(c, set_c(set_h(set_n(c.regs, FALSE), FALSE), ~flag_c(c.regs))),
                 b, 4)

\* opcodes 0x40..=0x7F: HALT and LD r,r'
execute_base_40_7F(c, b, opcode) ==
    IF opcode = \h76
    THEN execute_base_HALT(c, b)
    ELSE LET destination == BitAnd(opcode \div 8, \h07)
             source == BitAnd(opcode, \h07)
             With(w) == Done(w.cpu, w.bus, IF source = 6 \/ destination = 6 THEN 8 ELSE 4)
         IN  With(write_r8(c, b, destination, read_r8(c, b, source)))

\* opcodes 0x80..=0xBF: ALU A,r
execute_base_80_BF(c, b, opcode) ==
    LET source == BitAnd(opcode, \h07)
    IN  Done(WithRegs(c, alu_a(c.regs, BitAnd(opcode \div 8, \h07),
                               read_r8(c, b, source))),
             b, IF source = 6 THEN 8 ELSE 4)

\* `self.pc = self.pop_word(bus)` and what RET, RET cc and RETI do besides
return_to(p, b, ime, ime_delay, cycles) ==
    Done([p.cpu EXCEPT !.pc = p.word, !.ime = ime, !.ime_delay = ime_delay], b, cycles)

\* RETI enabling interrupts the way EI does, after the next instruction
execute_base_RETI_with_delay(c, b) == return_to(pop_word(c, b), b, c.ime, 2, 16)

\* 0xD9 RETI
execute_base_RETI(c, b) == return_to(pop_word(c, b), b, TRUE, 0, 16)

\* `self.push_word(bus, self.pc); self.pc = address`
call_to(p, address, cycles) == Done([p.cpu EXCEPT !.pc = address], p.bus, cycles)

\* opcodes 0xC0..=0xFF
execute_base_C0_FF(c, b, opcode) ==
    CASE opcode \in {\hC0, \hC8, \hD0, \hD8} ->
            IF condition(c, BitAnd(opcode \div 8, \h03))
            THEN return_to(pop_word(c, b), b, c.ime, c.ime_delay, 20)
            ELSE Done(c, b, 8)
      [] opcode \in {\hC1, \hD1, \hE1, \hF1} ->
            LET With(p) ==
                    CASE opcode = \hC1 -> Done(WithRegs(p.cpu, set_bc(p.cpu.regs, p.word)), b, 12)
                      [] opcode = \hD1 -> Done(WithRegs(p.cpu, set_de(p.cpu.regs, p.word)), b, 12)
                      [] opcode = \hE1 -> Done(WithRegs(p.cpu, set_hl(p.cpu.regs, p.word)), b, 12)
                      [] opcode = \hF1 -> Done(WithRegs(p.cpu, set_af(p.cpu.regs, p.word)), b, 12)
            IN  With(pop_word(c, b))
      [] opcode \in {\hC2, \hCA, \hD2, \hDA} ->
            LET With(fw) ==
                    IF condition(fw.cpu, BitAnd(opcode \div 8, \h03))
                    THEN Done([fw.cpu EXCEPT !.pc = fw.word], b, 16)
                    ELSE Done(fw.cpu, b, 12)
            IN  With(fetch_word(c, b))
      [] opcode = \hC3 ->
            LET With(fw) == Done([fw.cpu EXCEPT !.pc = fw.word], b, 16)
            IN  With(fetch_word(c, b))
      [] opcode \in {\hC4, \hCC, \hD4, \hDC} ->
            LET With(fw) ==
                    IF condition(fw.cpu, BitAnd(opcode \div 8, \h03))
                    THEN call_to(push_word(fw.cpu, b, fw.cpu.pc), fw.word, 24)
                    ELSE Done(fw.cpu, b, 12)
            IN  With(fetch_word(c, b))
      [] opcode \in {\hC5, \hD5, \hE5, \hF5} ->
            LET With(p) == Done(p.cpu, p.bus, 16)
            IN  With(push_word(c, b, CASE opcode = \hC5 -> bc(c.regs)
                                       [] opcode = \hD5 -> de(c.regs)
                                       [] opcode = \hE5 -> hl(c.regs)
                                       [] opcode = \hF5 -> af(c.regs)))
      [] opcode \in {\hC6, \hCE, \hD6, \hDE, \hE6, \hEE, \hF6, \hFE} ->
            LET With(fb) ==
                    Done(WithRegs(fb.cpu, alu_a(fb.cpu.regs, BitAnd(opcode \div 8, \h07),
                                                fb.byte)), b, 8)
            IN  With(fetch_byte(c, b))
      [] BitAnd(opcode, \hC7) = \hC7 ->
            call_to(push_word(c, b, c.pc), BitAnd(opcode, \h38), 16)
      [] opcode = \hC9 -> return_to(pop_word(c, b), b, c.ime, c.ime_delay, 16)
      [] opcode = \hCB ->
            LET With(fb) == execute_cb(fb.cpu, b, fb.byte)
            IN  With(fetch_byte(c, b))
      [] opcode = \hCD ->
            LET With(fw) == call_to(push_word(fw.cpu, b, fw.cpu.pc), fw.word, 24)
            IN  With(fetch_word(c, b))
      [] opcode = \hD9 -> execute_base_RETI(c, b)
      [] opcode = \hE0 ->
            LET With(fb) ==
                    Done(fb.cpu, write_byte(b, BitOr(\hFF00, fb.byte), fb.cpu.regs.a), 12)
            IN  With(fetch_byte(c, b))
      [] opcode = \hE2 ->
            Done(c, write_byte(b, BitOr(\hFF00, c.regs.c), c.regs.a), 8)
      [] opcode = \hE8 ->
            LET Then(fb, r) ==
                    Done([fb.cpu EXCEPT
                            !.sp = r.result,
                            !.regs = set_znhc(fb.cpu.regs, FALSE, FALSE,
                                              r.half_carry, r.carry)], b, 16)
                With(fb) == Then(fb, add_sp_offset(fb.cpu.sp, fb.byte))
            IN  With(fetch_byte(c, b))
      [] opcode = \hE9 -> Done([c EXCEPT !.pc = hl(c.regs)], b, 4)
      [] opcode = \hEA ->
            LET With(fw) == Done(fw.cpu, write_byte(b, fw.word, fw.cpu.regs.a), 16)
            IN  With(fetch_word(c, b))
      [] opcode = \hF0 ->
            LET With(fb) ==
                    Done([fb.cpu EXCEPT !.regs.a = read_byte(b, BitOr(\hFF00, fb.byte))],
                         b, 12)
            IN  With(fetch_byte(c, b))
      [] opcode = \hF2 ->
            Done([c EXCEPT !.regs.a = read_byte(b, BitOr(\hFF00, c.regs.c))], b, 8)
      [] opcode = \hF3 -> execute_base_DI(c, b)
      [] opcode = \hF8 ->
            LET Then(fb, r) ==
                    Done(WithRegs(fb.cpu,
                                  set_znhc(set_hl(fb.cpu.regs, r.result), FALSE, FALSE,
                                           r.half_carry, r.carry)), b, 12)
                With(fb) == Then(fb, add_sp_offset(fb.cpu.sp, fb.byte))
            IN  With(fetch_byte(c, b))
      [] opcode = \hF9 -> Done([c EXCEPT !.sp = hl(c.regs)], b, 8)
      [] opcode = \hFA ->
            LET With(fw) == Done([fw.cpu EXCEPT !.regs.a = read_byte(b, fw.word)], b, 16)
            IN  With(fetch_word(c, b))
      [] opcode = \hFB -> execute_base_EI(c, b)
      [] opcode \in {\hDB, \hDD, \hE3, \hE4, \hEB, \hEC, \hED, \hF4, \hFC, \hFD} ->
            Failed(c, b, opcode)
      [] OTHER -> Failed(c, b, opcode)

\* execute_base that takes 0xE3 for a NOP
execute_base_accepting_E3(c, b, opcode) ==
    CASE opcode = \hE3 -> Done(c, b, 4)
      [] opcode \in \h00..\h3F -> execute_base_00_3F(c, b, opcode)
      [] opcode \in \h40..\h7F -> execute_base_40_7F(c, b, opcode)
      [] opcode \in \h80..\hBF -> execute_base_80_BF(c, b, opcode)
      [] opcode \in \hC0..\hFF -> execute_base_C0_FF(c, b, opcode)

execute_base(c, b, opcode) ==
    CASE opcode \in \h00..\h3F -> execute_base_00_3F(c, b, opcode)
      [] opcode \in \h40..\h7F -> execute_base_40_7F(c, b, opcode)
      [] opcode \in \h80..\hBF -> execute_base_80_BF(c, b, opcode)
      [] opcode \in \hC0..\hFF -> execute_base_C0_FF(c, b, opcode)

(***************************************************************************)
(* Cpu: interrupts and the step.                                           *)
(***************************************************************************)
\* interrupt_vector with the tests in the opposite order: the highest
\* pending bit wins
interrupt_vector_highest_first(pending) ==
    IF BitAnd(pending, INTERRUPT_JOYPAD) # 0 THEN [mask |-> INTERRUPT_JOYPAD, vector |-> \h60]
    ELSE IF BitAnd(pending, INTERRUPT_SERIAL) # 0 THEN [mask |-> INTERRUPT_SERIAL, vector |-> \h58]
    ELSE IF BitAnd(pending, INTERRUPT_TIMER) # 0 THEN [mask |-> INTERRUPT_TIMER, vector |-> \h50]
    ELSE IF BitAnd(pending, INTERRUPT_LCD) # 0 THEN [mask |-> INTERRUPT_LCD, vector |-> \h48]
    ELSE [mask |-> INTERRUPT_VBLANK, vector |-> \h40]

interrupt_vector(pending) ==
    IF BitAnd(pending, INTERRUPT_VBLANK) # 0 THEN [mask |-> INTERRUPT_VBLANK, vector |-> \h40]
    ELSE IF BitAnd(pending, INTERRUPT_LCD) # 0 THEN [mask |-> INTERRUPT_LCD, vector |-> \h48]
    ELSE IF BitAnd(pending, INTERRUPT_TIMER) # 0 THEN [mask |-> INTERRUPT_TIMER, vector |-> \h50]
    ELSE IF BitAnd(pending, INTERRUPT_SERIAL) # 0 THEN [mask |-> INTERRUPT_SERIAL, vector |-> \h58]
    ELSE [mask |-> INTERRUPT_JOYPAD, vector |-> \h60]

\* service_interrupt_after_hi with a cancelled dispatch returning at once,
\* the low byte of PC not pushed
service_interrupt_after_hi_without_low_push(c1, b1, pc_lo, pending_after_hi) ==
    LET sp2 == Wrap16(c1.sp + 65535)
        Selected(target, b2) ==
            [cpu |-> [c1 EXCEPT !.sp = sp2, !.pc = target.vector],
             bus |-> clear_interrupt(b2, target.mask), cycles |-> 20]
    IN  IF pending_after_hi = 0
        THEN [cpu |-> [c1 EXCEPT !.pc = \h0000], bus |-> b1, cycles |-> 20]
        ELSE Selected(interrupt_vector(pending_after_hi), write_byte(b1, sp2, pc_lo))

\* service_interrupt from `let pending_after_hi = bus.pending_interrupts()`
\* on: c1 and b1 are the cpu and the bus after the push of the high byte
service_interrupt_after_hi(c1, b1, pc_lo, pending_after_hi) ==
    LET sp2 == Wrap16(c1.sp + 65535)
        Selected(target, b2) ==
            [cpu |-> [c1 EXCEPT !.sp = sp2, !.pc = target.vector],
             bus |-> clear_interrupt(b2, target.mask), cycles |-> 20]
    IN  IF pending_after_hi = 0
        THEN [cpu |-> [c1 EXCEPT !.sp = sp2, !.pc = \h0000],
              bus |-> write_byte(b1, sp2, pc_lo), cycles |-> 20]
        ELSE Selected(interrupt_vector(pending_after_hi), write_byte(b1, sp2, pc_lo))

\* service_interrupt with the pending set read before the high byte of PC
\* is pushed
service_interrupt_pending_before_push(c, b) ==
    LET sp1 == Wrap16(c.sp + 65535)
        c1 == [c EXCEPT !.ime = FALSE, !.ime_delay = 0,
                        !.halted = FALSE, !.stopped = FALSE, !.sp = sp1]
        With(b1) ==
            service_interrupt_after_hi(c1, b1, LoByte(c.pc), pending_interrupts(b))
    IN  With(write_byte(b, sp1, HiByte(c.pc)))

service_interrupt(c, b) ==
    LET sp1 == Wrap16(c.sp + 65535)
        c1 == [c EXCEPT !.ime = FALSE, !.ime_delay = 0,
                        !.halted = FALSE, !.stopped = FALSE, !.sp = sp1]
        With(b1) ==
            service_interrupt_after_hi(c1, b1, LoByte(c.pc), pending_interrupts(b1))
    IN  With(write_byte(b, sp1, HiByte(c.pc)))

\* advance_ime_delay leaving the counter where EI put it
advance_ime_delay_not_counting(c) == c

advance_ime_delay(c) ==
    IF c.ime_delay > 0
    THEN IF c.ime_delay - 1 = 0
         THEN [c EXCEPT !.ime_delay = 0, !.ime = TRUE]
         ELSE [c EXCEPT !.ime_delay = c.ime_delay - 1]
    ELSE c

\* The result of a step carries, beside the new cpu and bus and the value
\* step returns, which of its return statements was reached (path) and the
\* opcode byte it fetched, if it fetched one.
StepResult(c, b, ret, path, opcode) ==
    [cpu |-> c, bus |-> b, ret |-> ret, path |-> path, opcode |-> opcode]

\* Cpu_step_execute that ticks the bus 4 cycles before the instruction
\* executes and the rest of its cycles after it
Cpu_step_execute_ticking_early(c, b) ==
    LET Then(opcode, e) ==
            IF ~e.ret.ok
            THEN StepResult(e.cpu, e.bus, e.ret, "execute", Some(opcode))
            ELSE StepResult(advance_ime_delay(e.cpu),
                            Bus_tick(e.bus, e.ret.value - 4),
                            e.ret, "execute", Some(opcode))
        With(fb) == Then(fb.byte, execute_base(fb.cpu, Bus_tick(b, 4), fb.byte))
    IN  With(fetch_byte(c, b))

\* Cpu_step_execute that ticks the bus 4 cycles and advances the EI delay
\* when execute_base fails
Cpu_step_execute_ticking_on_error(c, b) ==
    LET Then(opcode, e) ==
            StepResult(advance_ime_delay(e.cpu),
                       Bus_tick(e.bus, IF e.ret.ok THEN e.ret.value ELSE 4),
                       e.ret, "execute", Some(opcode))
        With(fb) == Then(fb.byte, execute_base(fb.cpu, b, fb.byte))
    IN  With(fetch_byte(c, b))

\* step from `let opcode = self.fetch_byte(bus)` on
Cpu_step_execute(c, b) ==
    LET Then(opcode, e) ==
            IF ~e.ret.ok
            THEN StepResult(e.cpu, e.bus, e.ret, "execute", Some(opcode))
            ELSE StepResult(advance_ime_delay(e.cpu), Bus_tick(e.bus, e.ret.value),
                            e.ret, "execute", Some(opcode))
        With(fb) == Then(fb.byte, execute_base(fb.cpu, b, fb.byte))
    IN  With(fetch_byte(c, b))

\* Cpu_step_pending with the test of `self.ime` left out of the dispatch
\* condition: a step kind decided by the pending set alone
Cpu_step_pending_ignoring_ime(c1, b, pending) ==
    IF pending # 0
    THEN LET With(s) == StepResult(s.cpu, Bus_tick(s.bus, s.cycles), Ok(s.cycles),
                                   "dispatch", None)
         IN  With(service_interrupt(c1, b))
    ELSE IF c1.halted /\ pending = 0
    THEN StepResult(c1, Bus_tick(b, 4), Ok(4), "halt_idle", None)
    ELSE Cpu_step_execute(IF c1.halted THEN [c1 EXCEPT !.halted = FALSE] ELSE c1, b)

\* Cpu_step_pending with `self.halted = false` left out of the wake-up
Cpu_step_pending_keeping_halted(c1, b, pending) ==
    IF c1.ime /\ pending # 0
    THEN LET With(s) == StepResult(s.cpu, Bus_tick(s.bus, s.cycles), Ok(s.cycles),
                                   "dispatch", None)
         IN  With(service_interrupt(c1, b))
    ELSE IF c1.halted /\ pending = 0
    THEN StepResult(c1, Bus_tick(b, 4), Ok(4), "halt_idle", None)
    ELSE Cpu_step_execute(c1, b)

\* Cpu_step_pending with a halted cpu idling until a dispatch: `pending`
\* is not looked at in the HALT check
Cpu_step_pending_halted_until_dispatch(c1, b, pending) ==
    IF c1.ime /\ pending # 0
    THEN LET With(s) == StepResult(s.cpu, Bus_tick(s.bus, s.cycles), Ok(s.cycles),
                                   "dispatch", None)
         IN  With(service_interrupt(c1, b))
    ELSE IF c1.halted
    THEN StepResult(c1, Bus_tick(b, 4), Ok(4), "halt_idle", None)
    ELSE Cpu_step_execute(c1, b)

\* Cpu_step_pending with the idle step of HALT moving PC on by one, as a
\* NOP would
Cpu_step_pending_idling_past_pc(c1, b, pending) ==
    IF c1.ime /\ pending # 0
    THEN LET With(s) == StepResult(s.cpu, Bus_tick(s.bus, s.cycles), Ok(s.cycles),
                                   "dispatch", None)
         IN  With(service_interrupt(c1, b))
    ELSE IF c1.halted /\ pending = 0
    THEN StepResult([c1 EXCEPT !.pc = Wrap16(c1.pc + 1)], Bus_tick(b, 4), Ok(4),
                    "halt_idle", None)
    ELSE Cpu_step_execute(IF c1.halted THEN [c1 EXCEPT !.halted = FALSE] ELSE c1, b)

\* step from `let pending = bus.pending_interrupts()` on: c1 is the cpu
\* after the check of `stopped`
Cpu_step_pending(c1, b, pending) ==
    IF c1.ime /\ pending # 0
    THEN LET With(s) == StepResult(s.cpu, Bus_tick(s.bus, s.cycles), Ok(s.cycles),
                                   "dispatch", None)
         IN  With(service_interrupt(c1, b))
    ELSE IF c1.halted /\ pending = 0
    THEN StepResult(c1, Bus_tick(b, 4), Ok(4), "halt_idle", None)
    ELSE Cpu_step_execute(IF c1.halted THEN [c1 EXCEPT !.halted = FALSE] ELSE c1, b)

\* step with the clock standing still while the cpu is stopped: the idle
\* step of STOP does not tick the bus
Cpu_step_stopping_the_clock(c, b) ==
    IF c.stopped /\ pending_interrupts(b) = 0
    THEN StepResult(c, b, Ok(4), "stop_idle", None)
    ELSE Cpu_step_pending(IF c.stopped THEN [c EXCEPT !.stopped = FALSE] ELSE c,
                          b, pending_interrupts(b))

Cpu_step(c, b) ==
    IF c.stopped /\ pending_interrupts(b) = 0
    THEN StepResult(c, Bus_tick(b, 4), Ok(4), "stop_idle", None)
    ELSE Cpu_step_pending(IF c.stopped THEN [c EXCEPT !.stopped = FALSE] ELSE c,
                          b, pending_interrupts(b))

GameBoy_step(gb) == Cpu_step(gb.cpu, gb.bus)

\* run_steps with the `?` left out: a failing step is passed over, and the
\* loop goes on to the next step with the cycles counted so far
run_steps_passing_over_failures(gb, n) ==
    LET RECURSIVE loop(_, _, _)
        loop(g, todo, cycles) ==
            IF todo = 0
            THEN [cpu |-> g.cpu, bus |-> g.bus, ret |-> Ok(cycles)]
            ELSE LET With(r) ==
                         loop([cpu |-> r.cpu, bus |-> r.bus], todo - 1,
                              IF r.ret.ok THEN cycles + r.ret.value ELSE cycles)
                 IN  With(GameBoy_step(g))
    IN  loop(gb, n, 0)

\* the machine run_steps leaves and the value it returns: `?` returns the
\* error of the first failing step out of the loop
run_steps(gb, n) ==
    LET RECURSIVE loop(_, _, _)
        loop(g, todo, cycles) ==
            IF todo = 0
            THEN [cpu |-> g.cpu, bus |-> g.bus, ret |-> Ok(cycles)]
            ELSE LET With(r) ==
                         IF ~r.ret.ok
                         THEN [cpu |-> r.cpu, bus |-> r.bus, ret |-> r.ret]
                         ELSE loop([cpu |-> r.cpu, bus |-> r.bus], todo - 1,
                                   cycles + r.ret.value)
                 IN  With(GameBoy_step(g))
    IN  loop(gb, n, 0)

(***************************************************************************)
(* The machine under check.  A run starts from GameBoy::with_program and   *)
(* the set-up the unit tests make through the public fields of Cpu and     *)
(* through Bus::write_byte (cpu.sp, cpu.ime, IE, IF, the timer registers); *)
(* then the caller calls step(), and may call Bus::request_interrupt       *)
(* between steps.                                                          *)
(***************************************************************************)
MaxSteps == 4
MaxRequests == 1

\* NOP, EI, DI, HALT, STOP, RETI, INC B, POP AF and an illegal opcode
OpcodeAlphabet == {\h00, \hFB, \hF3, \h76, \h10, \hD9, \h04, \hF1, \hD3}

\* every two-opcode program, and STOP (with its padding byte) before HALT
Programs ==
    {<<x, y>> : x \in OpcodeAlphabet, y \in OpcodeAlphabet} \cup {<<\h10, \h00, \h76>>}

\* (IE, IF) pairs written before the run
InterruptSetups ==
    {<<\h00, \h00>>, <<\h05, \h04>>, <<\h01, \h00>>, <<\h1F, \h12>>}

\* TAC, TIMA, TMA written before the run: timer off, or 16-cycle clock with
\* TIMA about to overflow
TimerSetups == {<<\h00, \h00, \h00>>, <<\h05, \hFF, \hAC>>}

RequestMasks == {INTERRUPT_VBLANK, INTERRUPT_TIMER}

SetUp(gb, sp, ime, ie, if, tm) ==
    LET b1 == write_byte(gb.bus, IE_ADDR, ie)
        b2 == write_byte(b1, IF_ADDR, if)
        b3 == write_byte(b2, TAC_ADDR, tm[1])
        b4 == write_byte(b3, TIMA_ADDR, tm[2])
        b5 == write_byte(b4, TMA_ADDR, tm[3])
    IN  [cpu |-> [gb.cpu EXCEPT !.sp = sp, !.ime = ime], bus |-> b5]

\* what the last call of step did: the cpu and the pending set it started
\* from, the return statement it reached, the opcode it fetched and the
\* value it returned
NoStep ==
    [start |-> Cpu_default, pending |-> 0, path |-> "none", opcode |-> None,
     ret |-> Ok(0)]

InitFrom(gb) ==
    /\ cpu = gb.cpu
    /\ bus = gb.bus
    /\ last = NoStep
    /\ steps = 0
    /\ requests = 0

\* programs over the alphabet at 0x0000, the stack at its reset place or
\* over the program itself
InitPrograms ==
    \E program \in Programs, sp \in {\hFFFE, \h0000}, ime \in BOOLEAN,
       int \in InterruptSetups, tm \in TimerSetups :
        InitFrom(SetUp(with_program(\h0000, program), sp, ime, int[1], int[2], tm))

\* interrupt dispatch with the stack over ordinary memory, IE, IF and the
\* timer registers
InitDispatch ==
    \E start \in {\h0200, \h3535},
       sp \in {\hFFFE, \h0000, \h0001, \hFF10, \hFF11, \hFF06, \hFF08},
       ie \in {\h01, \h03, \h04, \h08, \h1F},
       if \in {\h03, \h04, \h08, \h10, \h12, \h14, \h1F},
       tm \in TimerSetups :
        InitFrom(SetUp(with_program(start, <<\h00>>), sp, TRUE, ie, if, tm))

Init == InitPrograms \/ InitDispatch

\* register files written before the run
RegisterSetups ==
    {Registers_default,
     [a |-> \h9A, b |-> \hFF, c |-> \h0F, d |-> \h80, e |-> \h01,
      h |-> \hC0, l |-> \hFF, f |-> \hF0],
     [a |-> \h0F, b |-> \h00, c |-> \h80, d |-> \h7F, e |-> \hFF,
      h |-> \h00, l |-> \h01, f |-> \h10],
     [a |-> \h45, b |-> \h12, c |-> \h34, d |-> \h56, e |-> \h78,
      h |-> \hFF, l |-> \h0F, f |-> \h00]}

\* every opcode with three operand bytes, every CB-prefixed opcode, and
\* each PUSH before its POP
OpcodePrograms ==
    {<<op, x, x>> : op \in \h00..\hFF, x \in {\h00, \hFF, \h37}}
        \cup {<<\hCB, op>> : op \in \h00..\hFF}
        \cup {<<op, op - 4>> : op \in {\hC5, \hD5, \hE5, \hF5}}

\* one instruction of any opcode, from each register file, the stack at its
\* reset place or over the program itself, no interrupt enabled or VBlank
\* and Timer enabled
InitOpcodes ==
    \E program \in OpcodePrograms, regs \in RegisterSetups, sp \in {\hFFFE, \h0000},
       ie \in {\h00, \h05} :
        LET gb == with_program(\h0000, program)
        IN  InitFrom([cpu |-> [gb.cpu EXCEPT !.regs = regs, !.sp = sp],
                      bus |-> write_byte(gb.bus, IE_ADDR, ie)])

\* HALT before every opcode, and EI, HALT before the opcodes of the alphabet
HaltBugPrograms ==
    {<<\h76, op, x>> : op \in \h00..\hFF, x \in {\h00, \h01}}
        \cup {<<\hFB, \h76, op>> : op \in OpcodeAlphabet}

\* IME false and VBlank pending and enabled: the first HALT does not halt
InitHaltBug ==
    \E program \in HaltBugPrograms, regs \in RegisterSetups :
        LET gb == with_program(\h0000, program)
        IN  InitFrom(SetUp([gb EXCEPT !.cpu.regs = regs], \hFFFE, FALSE,
                           INTERRUPT_VBLANK, INTERRUPT_VBLANK, <<\h00, \h00, \h00>>))

\* the machine exactly as GameBoy::with_program leaves it
InitFresh == \E program \in Programs : InitFrom(with_program(\h0000, program))

Step ==
    /\ steps < MaxSteps
    /\ LET With(r) ==
               /\ cpu' = r.cpu
               /\ bus' = r.bus
               /\ last' = [start |-> cpu, pending |-> pending_interrupts(bus),
                           path |-> r.path, opcode |-> r.opcode, ret |-> r.ret]
       IN  With(Cpu_step(cpu, bus))
    /\ steps' = steps + 1
    /\ UNCHANGED requests

RequestInterrupt ==
    /\ requests < MaxRequests
    /\ \E mask \in RequestMasks :
          bus' = request_interrupt(bus, mask)
    /\ requests' = requests + 1
    /\ UNCHANGED <<cpu, last, steps>>

Next == Step \/ RequestInterrupt

Spec == Init /\ [][Next]_vars

SpecFresh == InitFresh /\ [][Next]_vars

SpecOpcodes == InitOpcodes /\ [][Next]_vars

SpecHaltBug == InitHaltBug /\ [][Next]_vars

(***************************************************************************)
(* Properties of the step.  In an action formula the unprimed variables    *)
(* are the state a step starts from and the primed ones the state it       *)
(* leaves.                                                                 *)
(***************************************************************************)

\* the pending set the next step starts from: ie & if & 0x1F
Pending == BitAnd(BitAnd(bus.interrupt_enable, bus.interrupt_flags), \h1F)

Idle(path) == path \in {"halt_idle", "stop_idle"}

(* C1: every step is exactly one of three kinds, decided from the state it *)
(* starts from.  It dispatches an interrupt (fetching no opcode and        *)
(* returning 20) exactly when ime is true and the pending set is not       *)
(* empty, halted or stopped or neither; it idles (fetching no opcode,      *)
(* returning 4, leaving the cpu as it is) exactly when the pending set is  *)
(* empty and the cpu is halted or stopped; otherwise it fetches the opcode *)
(* at PC and executes it.  No step dispatches while ime is false.          *)
C1_StepKinds ==
    [][Step =>
         /\ last'.path \in {"dispatch", "halt_idle", "stop_idle", "execute"}
         /\ last'.path = "dispatch" <=> (cpu.ime /\ Pending # 0)
         /\ last'.path = "dispatch" =>
                last'.opcode = None /\ last'.ret = Ok(20) /\ cpu.ime
         /\ Idle(last'.path) <=> (Pending = 0 /\ (cpu.halted \/ cpu.stopped))
         /\ Idle(last'.path) =>
                last'.opcode = None /\ last'.ret = Ok(4) /\ cpu' = cpu
         /\ last'.path = "execute" =>
                last'.opcode = Some(read_byte(bus, cpu.pc))
      ]_vars

\* an interrupt was dispatched by a step that found the cpu halted
C1_DispatchFromHalt == last.path = "dispatch" /\ last.start.halted /\ last.start.ime

\* the five interrupt bits, the lowest one set in a non-empty pending set,
\* and the vector of each
InterruptBits == {\h01, \h02, \h04, \h08, \h10}
LowestBit(pending) ==
    CHOOSE m \in InterruptBits :
        /\ BitAnd(pending, m) # 0
        /\ \A k \in InterruptBits : k < m => BitAnd(pending, k) = 0
VectorOf(m) ==
    CASE m = \h01 -> \h40 [] m = \h02 -> \h48 [] m = \h04 -> \h50
      [] m = \h08 -> \h58 [] m = \h10 -> \h60

\* the two addresses a dispatch from this state pushes to
PushHi == Wrap16(cpu.sp + 65535)
PushLo == Wrap16(cpu.sp + 65534)

\* a dispatch starts here, and neither pushed byte lands on IF or IE
DispatchAwayFromIfIe ==
    /\ Step
    /\ cpu.ime /\ Pending # 0
    /\ {PushHi, PushLo} \cap {IF_ADDR, IE_ADDR} = {}

\* IF of the state a step starts from, with the bit of the target cleared
IfWithoutTarget ==
    BitAnd(bus.interrupt_flags, Not8(LowestBit(Pending)))

(* C2 as stated: a dispatch that is not cancelled (no pushed byte lands on *)
(* IF or IE) takes the lowest-numbered bit of ie & if: PC becomes its      *)
(* vector, IE keeps its value, and IF after the step is IF before it with  *)
(* exactly that bit cleared.                                               *)
C2_DispatchClearsExactlyTarget ==
    [][DispatchAwayFromIfIe =>
         /\ cpu'.pc = VectorOf(LowestBit(Pending))
         /\ bus'.interrupt_enable = bus.interrupt_enable
         /\ bus'.interrupt_flags = IfWithoutTarget
      ]_vars

(* C2, amended: as above, except that the timer tick of the same step      *)
(* (bus.tick(20) after the dispatch) may set IF bit 2; every IF bit other  *)
(* than bit 2 is as the dispatch left it.                                  *)
C2_DispatchClearsTargetUpToTimerTick ==
    [][DispatchAwayFromIfIe =>
         /\ cpu'.pc = VectorOf(LowestBit(Pending))
         /\ bus'.interrupt_enable = bus.interrupt_enable
         /\ bus'.interrupt_flags
                \in {IfWithoutTarget, BitOr(IfWithoutTarget, INTERRUPT_TIMER)}
      ]_vars

\* the Timer interrupt was taken although Joypad, a higher bit, was pending
\* too and stays pending
C2_TimerTakenBeforeJoypad ==
    /\ last.path = "dispatch"
    /\ cpu.pc = \h50 /\ cpu.sp = \hFFFC
    /\ BitAnd(bus.interrupt_flags, INTERRUPT_JOYPAD) # 0
    /\ bus.interrupt_enable = \h1F

\* IE, IF and the pending set as they stand when a dispatch from this state
\* has pushed the high byte of PC
IeAfterHi ==
    IF PushHi = IE_ADDR THEN BitAnd(HiByte(cpu.pc), \h1F) ELSE bus.interrupt_enable
IfAfterHi ==
    IF PushHi = IF_ADDR THEN BitAnd(HiByte(cpu.pc), \h1F) ELSE bus.interrupt_flags
PendingAfterHi == BitAnd(BitAnd(IeAfterHi, IfAfterHi), \h1F)

\* a dispatch starts here
Dispatch == Step /\ cpu.ime /\ Pending # 0

(* C3: a dispatch that finds ie & if & 0x1F = 0 once the high byte of PC   *)
(* is pushed still pushes the low byte (SP ends 2 lower, mod 2^16, and the *)
(* byte is in memory), sets PC to 0x0000, clears no bit of IF (every bit   *)
(* set after the high-byte push is set after the step), leaves IME false   *)
(* and returns 20.                                                         *)
C3_CancelledDispatch ==
    [][Dispatch /\ PendingAfterHi = 0 =>
         /\ cpu'.sp = Wrap16(cpu.sp + 65534)
         /\ PushLo \notin {IF_ADDR, IE_ADDR}
         /\ read_byte(bus', PushLo) = LoByte(cpu.pc)
         /\ cpu'.pc = \h0000
         /\ BitAnd(bus'.interrupt_flags, IfAfterHi) = IfAfterHi
         /\ PushHi # IF_ADDR =>
                BitAnd(bus'.interrupt_flags, bus.interrupt_flags) = bus.interrupt_flags
         /\ ~cpu'.ime
         /\ last'.ret = Ok(20)
      ]_vars

\* a dispatch from PC = 0x3535 with SP = 0x0000 was cancelled: IE took the
\* high byte, the low byte is on the stack, IF still has its bit
C3_CancelledBySpZero ==
    /\ last.path = "dispatch"
    /\ last.start.sp = \h0000 /\ last.start.pc = \h3535
    /\ cpu.pc = \h0000 /\ cpu.sp = \hFFFE
    /\ read_byte(bus, \hFFFE) = \h35
    /\ bus.interrupt_enable = \h15
    /\ BitAnd(bus.interrupt_flags, INTERRUPT_SERIAL) # 0

\* IE and IF as they stand when a dispatch from this state has pushed both
\* bytes of PC
IeAfterLo ==
    IF PushLo = IE_ADDR THEN BitAnd(LoByte(cpu.pc), \h1F) ELSE IeAfterHi
IfAfterLo ==
    IF PushLo = IF_ADDR THEN BitAnd(LoByte(cpu.pc), \h1F) ELSE IfAfterHi

(* C4: the target of a dispatch (its vector and the IF bit it clears) is   *)
(* the lowest bit of ie & if as it stands after the push of the high byte  *)
(* of PC and before the push of the low byte.  So with SP = 0x0000, where  *)
(* the high byte lands on IE, the target is chosen under the new IE; with  *)
(* SP = 0x0001, where the low byte lands on IE, the target is the one the  *)
(* step started with and IE ends as the low byte.  (IF bit 2 may be set    *)
(* again by the timer tick that ends the step.)                            *)
C4_TargetAfterHighPush ==
    [][Dispatch /\ PendingAfterHi # 0 =>
         LET mask == LowestBit(PendingAfterHi)
             cleared == BitAnd(IfAfterLo, Not8(mask))
         IN  /\ cpu'.pc = VectorOf(mask)
             /\ bus'.interrupt_flags \in {cleared, BitOr(cleared, INTERRUPT_TIMER)}
             /\ bus'.interrupt_enable = IeAfterLo
             /\ cpu.sp = \h0000 =>
                    mask = LowestBit(BitAnd(BitAnd(HiByte(cpu.pc), bus.interrupt_flags),
                                            \h1F))
             /\ cpu.sp = \h0001 =>
                    /\ mask = LowestBit(Pending)
                    /\ bus'.interrupt_enable = BitAnd(LoByte(cpu.pc), \h1F)
      ]_vars

\* a dispatch that started with VBlank and LCD pending and SP = 0x0000 took
\* LCD: the high byte 0x02 of PC had become IE, and VBlank is still in IF
C4_RetargetedToLcd ==
    /\ last.path = "dispatch"
    /\ last.start.sp = \h0000 /\ last.start.pc = \h0200
    /\ last.pending = \h03
    /\ cpu.pc = \h48
    /\ bus.interrupt_enable = \h02
    /\ BitAnd(bus.interrupt_flags, \h03) = INTERRUPT_VBLANK

\* the step from this state executes EI, and IME is false
EiWithImeFalse ==
    Step /\ ~cpu.ime /\ last'.path = "execute" /\ last'.opcode = Some(\hFB)

\* the last step executed EI with IME false, and the next step starts here
AfterEiWithImeFalse ==
    /\ Step
    /\ last.path = "execute" /\ last.opcode = Some(\hFB) /\ ~last.start.ime

(* C5 as stated: when EI executes with IME false, IME is false at the end  *)
(* of its step; the next step executes the instruction at PC, whatever is  *)
(* pending; and if that instruction is legal and is not DI, IME is true at *)
(* the end of that step.                                                   *)
C5_EiLatencyExceptDi ==
    [][/\ EiWithImeFalse => ~cpu'.ime
       /\ AfterEiWithImeFalse =>
             /\ last'.path = "execute"
             /\ last'.opcode = Some(read_byte(bus, cpu.pc))
             /\ (last'.ret.ok /\ last'.opcode # Some(\hF3)) => cpu'.ime
      ]_vars

(* C5, amended: the same, with EI excepted beside DI: a second EI sets     *)
(* ime_delay to 2 again, and IME is still false at the end of its step.    *)
C5_EiLatencyExceptDiAndEi ==
    [][/\ EiWithImeFalse => ~cpu'.ime
       /\ AfterEiWithImeFalse =>
             /\ last'.path = "execute"
             /\ last'.opcode = Some(read_byte(bus, cpu.pc))
             /\ (last'.ret.ok /\ last'.opcode \notin {Some(\hF3), Some(\hFB)}) =>
                    cpu'.ime
             /\ last'.opcode \in {Some(\hF3), Some(\hFB)} => ~cpu'.ime
      ]_vars

\* EI, then NOP executed with an interrupt pending and not dispatched; IME
\* is now true and the interrupt still pending
C5_NopAfterEiEnabled ==
    /\ last.path = "execute" /\ last.opcode = Some(\h00)
    /\ last.start.ime_delay = 1 /\ ~last.start.ime
    /\ last.pending # 0
    /\ cpu.ime /\ cpu.ime_delay = 0
    /\ Pending # 0

(* C6: in every state a fresh machine reaches by calls of step, over any   *)
(* program, ime_delay > 0 implies that ime is false.                       *)
C6_ImeDelayImpliesImeFalse == cpu.ime_delay > 0 => ~cpu.ime

(* C7: in every state reached by calls of step, over any program and any   *)
(* interrupt requests, cpu.halted and cpu.stopped are not both true.       *)
C7_NotHaltedAndStopped == ~(cpu.halted /\ cpu.stopped)

\* a halted cpu with IME false was woken by a request and executed STOP: it
\* is now stopped
C7_StoppedAfterHaltWake ==
    /\ last.path = "execute" /\ last.opcode = Some(\h10)
    /\ last.start.halted /\ ~last.start.ime
    /\ requests = 1
    /\ cpu.stopped

(* C8: after every step, of any program, the low four bits of F are zero;  *)
(* also after POP AF of any two stack bytes and after a step that returns  *)
(* IllegalOpcode.                                                          *)
C8_FlagMask == BitAnd(cpu.regs.f, \h0F) = 0

\* POP AF with SP = 0x0000 popped its own opcode 0xF1 as the low byte: F is
\* 0xF0
C8_PopAfMasked ==
    /\ last.path = "execute" /\ last.opcode = Some(\hF1)
    /\ last.start.sp = \h0000 /\ read_byte(bus, \h0000) = \hF1
    /\ cpu.regs.f = \hF0
    /\ cpu.sp = \h0002

(* C9: a step that starts halted with ie & if & 0x1F = 0 returns 4, leaves *)
(* PC unchanged and keeps halted true; a step that starts halted with an   *)
(* interrupt pending clears halted and, in the same step, dispatches if    *)
(* IME is set, and otherwise executes the instruction at PC (where HALT    *)
(* and the idle steps left it) with no dispatch.                           *)
C9_HaltIdleAndWake ==
    [][Step /\ cpu.halted =>
         /\ Pending = 0 =>
                /\ Idle(last'.path) /\ last'.ret = Ok(4)
                /\ cpu'.pc = cpu.pc
                /\ cpu'.halted
         /\ Pending # 0 =>
                /\ ~cpu'.halted
                /\ cpu.ime => last'.path = "dispatch"
                /\ ~cpu.ime =>
                       /\ last'.path = "execute"
                       /\ last'.opcode = Some(read_byte(bus, cpu.pc))
      ]_vars

\* HALT, an idle step, a request, and a step that woke with IME false and
\* executed the INC B after HALT
C9_WokeAndExecuted ==
    /\ steps = 3 /\ requests = 1
    /\ last.start.halted /\ ~last.start.ime /\ last.start.pc = \h0001
    /\ last.path = "execute" /\ last.opcode = Some(\h04)
    /\ cpu.regs.b = 1 /\ cpu.pc = \h0002
    /\ ~cpu.halted

\* the opcodes whose arm of execute_base fetches operand bytes, those whose
\* arm writes PC, and those it rejects
OperandOpcodes ==
    {op \in \h00..\h3F : BitAnd(op, \hC7) = \h06}
        \cup {\h01, \h11, \h21, \h31, \h08, \h10, \h18, \h20, \h28, \h30, \h38}
        \cup {\hC2, \hCA, \hD2, \hDA, \hC3, \hC4, \hCC, \hD4, \hDC, \hCD, \hCB}
        \cup {\hC6, \hCE, \hD6, \hDE, \hE6, \hEE, \hF6, \hFE}
        \cup {\hE0, \hF0, \hE8, \hF8, \hEA, \hFA}
PcWritingOpcodes ==
    {\hC0, \hC8, \hD0, \hD8, \hC9, \hD9, \hE9}
        \cup {op \in \hC0..\hFF : BitAnd(op, \hC7) = \hC7}
IllegalOpcodes ==
    {\hD3, \hDB, \hDD, \hE3, \hE4, \hEB, \hEC, \hED, \hF4, \hFC, \hFD}
OneByte(opcode) == \A op \in opcode : op \notin OperandOpcodes

\* the step from this state executes HALT with IME clear and an interrupt
\* pending
HaltWithImeClearAndPending ==
    /\ Step
    /\ ~cpu.ime /\ Pending # 0
    /\ last'.path = "execute" /\ last'.opcode = Some(\h76)

Repeatable(opcode) ==
    \A op \in opcode :
        op \notin OperandOpcodes \cup PcWritingOpcodes \cup IllegalOpcodes \cup {\h76}

ExecutesStop == Step /\ last'.path = "execute" /\ last'.opcode = Some(\h10)

(* C11 as stated: executing 0x10 moves PC over two bytes and sets stopped; *)
(* a step that starts stopped with ie & if & 0x1F = 0 returns 4 and leaves *)
(* PC unchanged; a step that starts stopped with an interrupt pending      *)
(* clears stopped and, in the same step, dispatches if IME is set and      *)
(* otherwise fetches and executes the instruction at PC.                   *)
C11_StopTwoBytesIdleAndWake ==
    [][/\ ExecutesStop => cpu'.stopped /\ cpu'.pc = Wrap16(cpu.pc + 2)
       /\ (Step /\ cpu.stopped /\ Pending = 0) =>
             /\ last'.path = "stop_idle" /\ last'.ret = Ok(4)
             /\ cpu'.pc = cpu.pc
             /\ cpu'.stopped
       /\ (Step /\ cpu.stopped /\ Pending # 0) =>
             /\ cpu.ime => last'.path = "dispatch" /\ ~cpu'.stopped
             /\ ~cpu.ime =>
                    /\ last'.path = "execute"
                    /\ last'.opcode = Some(read_byte(bus, cpu.pc))
                    /\ cpu'.stopped <=> last'.opcode = Some(\h10)
      ]_vars

(* C11, amended.  Executing 0x10 sets stopped and moves PC over the opcode *)
(* and the padding byte, two bytes, unless the opcode was fetched with     *)
(* halt_bug set: then PC moves one byte and is left on the padding byte.   *)
(* A step that starts stopped with ie & if & 0x1F = 0 returns 4 and leaves *)
(* PC unchanged; a step that starts stopped with an interrupt pending      *)
(* clears stopped and, in the same step, dispatches if IME is set and      *)
(* otherwise fetches and executes the instruction at PC.                   *)
C11_StopIdleAndWake ==
    [][/\ ExecutesStop =>
             /\ cpu'.stopped
             /\ cpu'.pc = Wrap16(cpu.pc + (IF cpu.halt_bug THEN 1 ELSE 2))
       /\ (Step /\ cpu.stopped /\ Pending = 0) =>
             /\ last'.path = "stop_idle" /\ last'.ret = Ok(4)
             /\ cpu'.pc = cpu.pc
             /\ cpu'.stopped
       /\ (Step /\ cpu.stopped /\ Pending # 0) =>
             /\ cpu.ime => last'.path = "dispatch" /\ ~cpu'.stopped
             /\ ~cpu.ime =>
                    /\ last'.path = "execute"
                    /\ last'.opcode = Some(read_byte(bus, cpu.pc))
                    /\ cpu'.stopped <=> last'.opcode = Some(\h10)
      ]_vars

\* STOP and its padding byte at 0x0000, an idle step, a request, and a step
\* that cleared stopped and executed the HALT at 0x0002 with IME false
C11_ResumedAfterStop ==
    /\ steps = 3 /\ requests = 1
    /\ read_byte(bus, \h0000) = \h10 /\ read_byte(bus, \h0002) = \h76
    /\ last.start.stopped /\ ~last.start.ime /\ last.start.pc = \h0002
    /\ last.pending # 0
    /\ last.path = "execute" /\ last.opcode = Some(\h76)
    /\ ~cpu.stopped /\ cpu.pc = \h0003

(***************************************************************************)
(* The bus driven directly.  A caller that holds a Bus calls tick and      *)
(* write_byte on it in any order, as the timer test does; the cpu takes no *)
(* part.  Here `last` remembers, for the calls made so far, how many       *)
(* cycles have been ticked since the last cycle on which a falling edge    *)
(* inside tick made TIMA overflow (None: no such cycle yet), and whether   *)
(* TIMA has been written since that cycle.                                 *)
(***************************************************************************)
MaxCalls == 3

\* cycles ticked before the timer registers are written: the divider is
\* 4 cycles before a falling edge of bit 3, 5, 7 or 9
PreTicks == {0, 12, 44, 252, 1020}

\* TAC: disabled, and enabled with each of the four clock selects
TimerControls == {\h00, \h04, \h05, \h06, \h07}

TickCycles == {1, 4, 16}

\* (address, value) pairs written: DIV, TIMA, TMA, TAC, IF and a cell of
\* ordinary memory
BusWrites ==
    {<<DIV_ADDR, \h00>>, <<TIMA_ADDR, \h00>>, <<TIMA_ADDR, \hFF>>,
     <<TMA_ADDR, \h05>>, <<TAC_ADDR, \h00>>, <<TAC_ADDR, \h05>>,
     <<TAC_ADDR, \hFE>>, <<IF_ADDR, \h00>>, <<\hC000, \hFF>>}

\* this cycle's tick_one reaches `self.overflow_reload_delay = Some(4)`
TickOverflows(timer) ==
    /\ timer_input(timer, timer.divider)
    /\ ~timer_input(timer, Wrap16(timer.divider + 1))
    /\ timer.tima = \hFF

NoCall == [since |-> None, written |-> FALSE]

\* `last` after one more cycle of tick, from the timer the cycle starts from
AfterCycle(l, timer) ==
    IF TickOverflows(timer) THEN [since |-> Some(0), written |-> FALSE]
    ELSE IF l.since = None THEN l
    ELSE [l EXCEPT !.since = Some(Unwrap(l.since) + 1)]

\* `last` after `cycles` cycles of tick
RECURSIVE AfterCycles(_, _, _)
AfterCycles(l, tf, cycles) ==
    IF cycles = 0 THEN l
    ELSE AfterCycles(AfterCycle(l, tf.timer), tick_one(tf), cycles - 1)

AfterWrite(l, address) ==
    IF address = TIMA_ADDR /\ l.since # None THEN [l EXCEPT !.written = TRUE] ELSE l

TimerAndFlags(b) == [timer |-> b.timer, interrupt_flags |-> b.interrupt_flags]

\* calls of tick, of 16 cycles at most each, that tick `cycles` cycles in
\* all: those of the first half of the cycles, then those of the rest
RECURSIVE TickInCalls(_, _)
TickInCalls(b, cycles) ==
    IF cycles <= 16 THEN Bus_tick(b, cycles)
    ELSE CHOOSE done \in {TickInCalls(ticked, cycles - cycles \div 2) :
                               ticked \in {TickInCalls(b, cycles \div 2)}} : TRUE

InitBus ==
    \E pre \in PreTicks, tac \in TimerControls, tima \in {\h00, \hFF} :
        /\ cpu = Cpu_default
        /\ bus = write_byte(write_byte(write_byte(TickInCalls(Bus_default, pre),
                                                  TAC_ADDR, tac),
                                       TIMA_ADDR, tima),
                            TMA_ADDR, \hAC)
        /\ last = NoCall
        /\ steps = 0
        /\ requests = 0

Tick(cycles) ==
    /\ steps < MaxCalls
    /\ bus' = Bus_tick(bus, cycles)
    /\ last' = AfterCycles(last, TimerAndFlags(bus), cycles)
    /\ steps' = steps + 1
    /\ UNCHANGED <<cpu, requests>>

Write(address, value) ==
    /\ steps < MaxCalls
    /\ bus' = write_byte(bus, address, value)
    /\ last' = AfterWrite(last, address)
    /\ steps' = steps + 1
    /\ UNCHANGED <<cpu, requests>>

BusTick == \E cycles \in TickCycles : Tick(cycles)

BusWrite == \E w \in BusWrites : Write(w[1], w[2])

NextBus == BusTick \/ BusWrite

SpecBus == InitBus /\ [][NextBus]_vars

(***************************************************************************)
(* Properties of the timer.  The cycles of a call tick(cycles) are         *)
(* numbered from 1; Cycle(i) is the timer and IF after the first i of      *)
(* them, from the state the call starts from.                              *)
(***************************************************************************)
Cycle(i) == Timer_tick(TimerAndFlags(bus), i)

\* bit k of a number, the divider bit that TAC bits 1-0 select, the enable
\* bit, and the number of cycles between two falling edges of that bit
Bit(value, k) == (value \div (2 ^ k)) % 2
ClockBit(tac) ==
    CASE tac % 4 = 0 -> 9 [] tac % 4 = 1 -> 3 [] tac % 4 = 2 -> 5 [] tac % 4 = 3 -> 7
TimerEnabled(tac) == Bit(tac, 2) = 1
Period(tac) == 2 ^ (ClockBit(tac) + 1)

\* the selected divider bit is 1 and becomes 0 when the divider is
\* incremented
BitFalls(timer) ==
    /\ Bit(timer.divider, ClockBit(timer.tac)) = 1
    /\ Bit((timer.divider + 1) % 65536, ClockBit(timer.tac)) = 0

\* one cycle of tick, from the timer `pre` to the timer `post`
EdgeCycle(pre, post) ==
    /\ post.divider = (pre.divider + 1) % 65536
    /\ post.tac = pre.tac /\ post.tma = pre.tma
    /\ post.tima =
          IF TimerEnabled(pre.tac) /\ BitFalls(pre) THEN (pre.tima + 1) % 256
          ELSE IF pre.overflow_reload_delay = Some(0) /\ pre.tima = 0 THEN pre.tma
          ELSE pre.tima
    /\ BitFalls(pre) <=> post.divider % Period(pre.tac) = 0

(* C12: on every cycle of Bus::tick the divider is incremented, and TIMA   *)
(* is incremented exactly when TAC bit 2 is set and the divider bit that   *)
(* TAC bits 1-0 select (0: bit 9, 1: bit 3, 2: bit 5, 3: bit 7) goes from  *)
(* 1 to 0 with that increment, which is on the cycles that make the        *)
(* divider a multiple of 1024 / 16 / 64 / 256: once per that many cycles.  *)
(* On any other cycle TIMA keeps its value, but for the reload from TMA;   *)
(* with TAC bit 2 clear it is never incremented.                           *)
C12_TimerEdge ==
    [][\A cycles \in TickCycles :
          Tick(cycles) =>
             /\ bus'.timer = Cycle(cycles).timer
             /\ \A i \in 1..cycles : EdgeCycle(Cycle(i - 1).timer, Cycle(i).timer)
      ]_vars

\* tick(4) with TAC = 0x07 took the divider from 252 to 256, where bit 7
\* falls, and TIMA from 0 to 1
C12_TimaIncrementedAtEdge ==
    /\ steps = 1
    /\ bus.timer.tac = \h07 /\ bus.timer.divider = 256
    /\ bus.timer.tima = \h01
    /\ bus.timer.overflow_reload_delay = None

\* IF bit 2 of a (timer, IF) pair
TimerFlag(tf) == Bit(tf.interrupt_flags, 2)

\* `last` before cycle i of the call
BeforeCycle(i) == AfterCycles(last, TimerAndFlags(bus), i - 1)

\* on this cycle a falling edge increments TIMA from 0xFF
OverflowCycle(pre) ==
    TimerEnabled(pre.timer.tac) /\ BitFalls(pre.timer) /\ pre.timer.tima = \hFF

\* one cycle of tick, from `pre` to `post`, that is the overflowing cycle,
\* one of the 3 cycles after it, or the 4th cycle after it
ReloadCycle(l, pre, post) ==
    /\ OverflowCycle(pre) =>
          /\ post.timer.tima = \h00
          /\ TimerFlag(post) = TimerFlag(pre)
    /\ (~OverflowCycle(pre) /\ l.since \in {Some(0), Some(1), Some(2)}) =>
          TimerFlag(post) = TimerFlag(pre)
    /\ (~OverflowCycle(pre) /\ l.since = Some(3) /\ pre.timer.tima = \h00) =>
          /\ post.timer.tima = pre.timer.tma
          /\ TimerFlag(post) = 1

(* C13 as stated: when a falling edge during Bus::tick increments TIMA     *)
(* from 0xFF, TIMA reads 0x00 and IF bit 2 is not raised on that cycle or  *)
(* on the next 3 cycles; on the 4th cycle after it, if TIMA is 0, TIMA is  *)
(* set to TMA and IF bit 2 is set.                                         *)
C13_ReloadOnFourthCycle ==
    [][\A cycles \in TickCycles :
          Tick(cycles) =>
             \A i \in 1..cycles : ReloadCycle(BeforeCycle(i), Cycle(i - 1), Cycle(i))
      ]_vars

\* ReloadCycle, the 4th cycle reloading only if TIMA has not been written
\* since the overflowing cycle
ReloadCycleUnlessWritten(l, pre, post) ==
    /\ OverflowCycle(pre) =>
          /\ post.timer.tima = \h00
          /\ TimerFlag(post) = TimerFlag(pre)
    /\ (~OverflowCycle(pre) /\ l.since \in {Some(0), Some(1), Some(2)}) =>
          TimerFlag(post) = TimerFlag(pre)
    /\ (/\ ~OverflowCycle(pre) /\ l.since = Some(3) /\ pre.timer.tima = \h00
        /\ ~l.written) =>
          /\ post.timer.tima = pre.timer.tma
          /\ TimerFlag(post) = 1

(* C13, amended: when a falling edge during Bus::tick increments TIMA from *)
(* 0xFF, TIMA reads 0x00 and IF bit 2 is not raised on that cycle or on    *)
(* the next 3 cycles; on the 4th cycle after it, if TIMA is still 0 and no *)
(* write to TIMA has been made since the overflowing cycle, TIMA is set to *)
(* the current TMA and IF bit 2 is set.                                    *)
C13_ReloadOnFourthCycleUnlessWritten ==
    [][\A cycles \in TickCycles :
          Tick(cycles) =>
             \A i \in 1..cycles :
                ReloadCycleUnlessWritten(BeforeCycle(i), Cycle(i - 1), Cycle(i))
      ]_vars

\* tick(4) from divider 12 made TIMA overflow on its last cycle, and the
\* tick(4) after it reloaded TIMA from TMA and raised IF bit 2 on its last
\* cycle
C13_ReloadedAfterFourCycles ==
    /\ steps = 2
    /\ last.since = Some(4) /\ ~last.written
    /\ bus.timer.divider = 20
    /\ bus.timer.tima = \hAC /\ bus.timer.tma = \hAC
    /\ Bit(bus.interrupt_flags, 2) = 1
    /\ bus.timer.overflow_reload_delay = None

(* C14: after any sequence of Bus::tick and Bus::write_byte calls, to DIV, *)
(* TIMA, TMA, TAC or elsewhere, read_byte(TIMA) returns 0x00 whenever      *)
(* overflow_reload_delay is Some.                                          *)
C14_ReloadDelayImpliesTimaZero ==
    bus.timer.overflow_reload_delay # None => read_byte(bus, TIMA_ADDR) = \h00

\* one cycle of tick that starts with no reload pending: IF bit 2 is not
\* raised, TIMA is not loaded from TMA, and a reload is pending after it
\* only if TIMA overflowed anew on this cycle
NoReloadCycle(pre, post) ==
    pre.timer.overflow_reload_delay = None =>
       /\ TimerFlag(post) = TimerFlag(pre)
       /\ post.timer.tima =
             IF TimerEnabled(pre.timer.tac) /\ BitFalls(pre.timer)
             THEN (pre.timer.tima + 1) % 256 ELSE pre.timer.tima
       /\ post.timer.overflow_reload_delay # None => OverflowCycle(pre)

(* C15: a write of any value to TIMA while a reload is pending leaves TIMA *)
(* with the written value and no reload pending, and changes nothing else. *)
(* From a state with no reload pending, no cycle of tick copies TMA into   *)
(* TIMA or raises IF bit 2, and no cycle and no write makes a reload       *)
(* pending unless it takes TIMA from 0xFF to 0x00, which is a new          *)
(* overflow: the cancelled reload never happens, however many cycles are   *)
(* ticked.                                                                 *)
C15_TimaWriteCancelsReload ==
    [][/\ \A w \in BusWrites :
             (Write(w[1], w[2]) /\ w[1] = TIMA_ADDR) =>
                bus' = [bus EXCEPT !.timer.tima = w[2],
                                   !.timer.overflow_reload_delay = None]
       /\ \A cycles \in TickCycles :
             Tick(cycles) =>
                \A i \in 1..cycles : NoReloadCycle(Cycle(i - 1), Cycle(i))
       /\ \A w \in BusWrites :
             (/\ Write(w[1], w[2]) /\ w[1] # TIMA_ADDR
              /\ bus.timer.overflow_reload_delay = None) =>
                /\ w[1] # IF_ADDR => bus'.interrupt_flags = bus.interrupt_flags
                /\ bus'.timer.overflow_reload_delay # None =>
                      bus.timer.tima = \hFF /\ bus'.timer.tima = \h00
      ]_vars

\* tick(4) from divider 12 made TIMA overflow, TIMA was written with 0xFF,
\* and after 4 more cycles TIMA is still 0xFF and IF bit 2 is clear
C15_ReloadCancelled ==
    /\ steps = 3
    /\ last.since = Some(4) /\ last.written
    /\ bus.timer.divider = 20
    /\ bus.timer.tima = \hFF /\ bus.timer.tma = \hAC
    /\ Bit(bus.interrupt_flags, 2) = 0
    /\ bus.timer.overflow_reload_delay = None

\* the timer input: enable AND the selected divider bit
Input(tac, divider) == TimerEnabled(tac) /\ Bit(divider, ClockBit(tac)) = 1

\* TIMA and the reload delay after a register write that increments TIMA
\* (edge) or does not
TimaAfterWrite(pre, post, edge) ==
    IF edge
    THEN /\ post.tima = (pre.tima + 1) % 256
         /\ post.overflow_reload_delay =
               IF pre.tima = \hFF THEN Some(4) ELSE pre.overflow_reload_delay
    ELSE /\ post.tima = pre.tima
         /\ post.overflow_reload_delay = pre.overflow_reload_delay

(* C16: a write of any value to DIV sets the divider to 0 and increments   *)
(* TIMA exactly when the timer input (enable AND selected divider bit) was *)
(* 1 before the write; a write to TAC stores value & 0x07 and increments   *)
(* TIMA exactly when the timer input is 1 with the old TAC and 0 with the  *)
(* new TAC at the unchanged divider; otherwise the write leaves TIMA as it *)
(* is.  Neither write changes anything but the timer.                      *)
C16_DivAndTacWrites ==
    [][\A w \in BusWrites :
          Write(w[1], w[2]) =>
             /\ w[1] = DIV_ADDR =>
                   /\ bus'.timer.divider = 0
                   /\ bus'.timer.tac = bus.timer.tac
                   /\ bus'.timer.tma = bus.timer.tma
                   /\ TimaAfterWrite(bus.timer, bus'.timer,
                                     Input(bus.timer.tac, bus.timer.divider))
                   /\ bus' = [bus EXCEPT !.timer = bus'.timer]
             /\ w[1] = TAC_ADDR =>
                   /\ bus'.timer.tac = w[2] % 8
                   /\ bus'.timer.divider = bus.timer.divider
                   /\ bus'.timer.tma = bus.timer.tma
                   /\ TimaAfterWrite(bus.timer, bus'.timer,
                                     /\ Input(bus.timer.tac, bus.timer.divider)
                                     /\ ~Input(w[2] % 8, bus.timer.divider))
                   /\ bus' = [bus EXCEPT !.timer = bus'.timer]
      ]_vars

\* a write to DIV at divider 12, where the selected bit 3 is 1, reset the
\* divider and took TIMA from 0 to 1
C16_DivWriteIncrementedTima ==
    /\ steps = 1
    /\ bus.timer.tac = \h05 /\ bus.timer.divider = 0
    /\ bus.timer.tima = \h01
    /\ bus.timer.overflow_reload_delay = None

(***************************************************************************)
(* The machine with the timer running under instructions that read and     *)
(* write the timer registers and IF.                                       *)
(***************************************************************************)
\* NOP, HALT, STOP, EI, LDH A,(n) and LDH (n),A on DIV, TIMA and IF, and
\* LD (HL),A
CycleInstructions ==
    {<<\h00>>, <<\h76>>, <<\h10, \h00>>, <<\hFB>>,
     <<\hF0, \h04>>, <<\hF0, \h05>>, <<\hF0, \h0F>>,
     <<\hE0, \h04>>, <<\hE0, \h05>>, <<\hE0, \h0F>>, <<\h77>>}

CyclePrograms == {x \o y : x \in CycleInstructions, y \in CycleInstructions}

\* every two-instruction program at 0x0000 with A = 0x04 and HL = DIV; the
\* stack at its reset place or over the timer registers; the 16-cycle
\* timer enabled after 0, 12 or 248 cycles, TIMA about to overflow and the
\* timer interrupt enabled
InitCycles ==
    \E program \in CyclePrograms, sp \in {\hFFFE, \hFF06}, ime \in BOOLEAN,
       pre \in {0, 12, 248} :
        LET gb == with_program(\h0000, program)
            regs == [Registers_default EXCEPT !.a = \h04, !.h = \hFF, !.l = \h04]
        IN  InitFrom(SetUp([cpu |-> [gb.cpu EXCEPT !.regs = regs],
                            bus |-> TickInCalls(gb.bus, pre)],
                           sp, ime, INTERRUPT_TIMER, \h00, <<\h05, \hFF, \hAC>>))

SpecCycles == InitCycles /\ [][Next]_vars

\* the byte the second fetch of a step from this state reads
Operand == read_byte(bus, IF cpu.halt_bug THEN cpu.pc ELSE Wrap16(cpu.pc + 1))

\* opcodes whose instruction writes no memory, and the bus after the write
\* of LDH (n),A and of LD (HL),A executed from this state
NoWriteOpcodes == {\h00, \h76, \h10, \hFB, \hF0, \h04, \h05, \h07, \h0F}
AfterWrites(opcode) ==
    CASE opcode = Some(\hE0) -> write_byte(bus, \hFF00 + Operand, cpu.regs.a)
      [] opcode = Some(\h77) ->
            write_byte(bus, cpu.regs.h * 256 + cpu.regs.l, cpu.regs.a)
      [] OTHER -> bus
WritingOpcodes == {\hE0, \h77}

\* the step that `r` is the record of, taken from this state, wrote to DIV
WroteDiv(r) ==
    \/ r.path = "dispatch" /\ DIV_ADDR \in {PushHi, PushLo}
    \/ r.path = "execute" /\ r.opcode = Some(\hE0) /\ Operand = \h04
    \/ /\ r.path = "execute" /\ r.opcode = Some(\h77)
       /\ cpu.regs.h * 256 + cpu.regs.l = DIV_ADDR

(* C17: a step that returns c cycles advances the timer by c cycles, once, *)
(* after all its reads and writes.  The divider after the step is the      *)
(* divider before plus c, mod 2^16, or c if the step wrote to DIV; the bus *)
(* after an idle step is the bus before ticked 4 cycles, and after an      *)
(* instruction it is the bus with the writes of the instruction, ticked c  *)
(* cycles; LDH A,(n) loads the value DIV, TIMA or IF had before the step.  *)
C17_TickAfterInstruction ==
    [][(/\ Step /\ last'.ret.ok
        /\ last'.path = "execute" =>
              \A op \in last'.opcode : op \in NoWriteOpcodes \cup WritingOpcodes) =>
          /\ bus'.timer.divider =
                IF WroteDiv(last') THEN last'.ret.value
                ELSE (bus.timer.divider + last'.ret.value) % 65536
          /\ Idle(last'.path) => bus' = Bus_tick(bus, 4)
          /\ last'.path = "execute" =>
                bus' = Bus_tick(AfterWrites(last'.opcode), last'.ret.value)
          /\ (last'.path = "execute" /\ last'.opcode = Some(\hF0)) =>
                cpu'.regs.a = read_byte(bus, \hFF00 + Operand)
      ]_vars

\* LDH A,(0x04) from divider 248 loaded DIV = 0x00, and the 12 cycles of
\* the instruction then took the divider to 260, where DIV reads 0x01
C17_DivReadBeforeTick ==
    /\ steps = 1
    /\ last.path = "execute" /\ last.opcode = Some(\hF0) /\ last.ret = Ok(12)
    /\ read_byte(bus, \h0001) = \h04
    /\ cpu.regs.a = \h00
    /\ bus.timer.divider = 260 /\ read_byte(bus, DIV_ADDR) = \h01

\* the step from this state returns IllegalOpcode
StepFails == Step /\ ~last'.ret.ok

(* C18 as stated: when step returns IllegalOpcode, the state after the     *)
(* call is the state before it with PC advanced by one: registers, SP,     *)
(* IME, ime_delay, halted, stopped, halt_bug and the whole bus (memory,    *)
(* timer, IF, IE, serial buffer) are unchanged.                            *)
C18_IllegalOpcodeOnlyAdvancesPc ==
    [][StepFails =>
          /\ cpu' = [cpu EXCEPT !.pc = Wrap16(cpu.pc + 1)]
          /\ bus' = bus
      ]_vars

(* C18, amended: when step returns IllegalOpcode, registers, SP, IME,      *)
(* ime_delay and the whole bus are unchanged; halted, stopped and halt_bug *)
(* are false after the call, whatever they were before it; and PC has      *)
(* advanced by one, unless halt_bug was set before the call, in which case *)
(* PC is unchanged.  The step started with an interrupt pending if halted  *)
(* or stopped was set, and with IME false or nothing pending in any case.  *)
C18_IllegalOpcodeAdvancesPcAndWakes ==
    [][StepFails =>
          /\ cpu' = [cpu EXCEPT
                        !.pc = IF cpu.halt_bug THEN cpu.pc ELSE Wrap16(cpu.pc + 1),
                        !.halted = FALSE, !.stopped = FALSE, !.halt_bug = FALSE]
          /\ bus' = bus
          /\ (cpu.halted \/ cpu.stopped) => Pending # 0
          /\ ~cpu.ime \/ Pending = 0
          /\ \E op \in IllegalOpcodes :
                /\ last'.ret = IllegalOpcode(op)
                /\ op = read_byte(bus, cpu.pc)
      ]_vars

\* EI, then the illegal opcode 0xD3 at 0x0001: the step returned
\* IllegalOpcode(0xD3), PC is 0x0002 and ime_delay is still 1
C18_IllegalAfterEi ==
    /\ steps = 2
    /\ last.ret = IllegalOpcode(\hD3) /\ last.path = "execute"
    /\ last.start.pc = \h0001 /\ last.start.ime_delay = 1
    /\ ~last.start.halted /\ ~last.start.stopped /\ ~last.start.halt_bug
    /\ cpu = [last.start EXCEPT !.pc = \h0002]

(* C19: the first step of a machine made by with_program, with no          *)
(* interrupt pending, fetches the opcode at PC and executes it; for each   *)
(* of the 256 opcodes it returns IllegalOpcode(op) if op is one of 0xD3,   *)
(* 0xDB, 0xDD, 0xE3, 0xE4, 0xEB, 0xEC, 0xED, 0xF4, 0xFC, 0xFD, the error   *)
(* carrying op itself, and a cycle count otherwise.                        *)
C19_IllegalExactlyTheEleven ==
    [][(Step /\ steps = 0 /\ Pending = 0) =>
          /\ last'.path = "execute"
          /\ last'.opcode = Some(read_byte(bus, cpu.pc))
          /\ \A op \in last'.opcode :
                IF op \in IllegalOpcodes
                THEN last'.ret = IllegalOpcode(op)
                ELSE last'.ret.ok /\ last'.ret.value \in {4, 8, 12, 16, 20, 24}
      ]_vars

\* the first step of with_program(0x0000, [0xFD, ..]) returned
\* IllegalOpcode(0xFD)
C19_FdRejected ==
    /\ steps = 1
    /\ read_byte(bus, \h0000) = \hFD
    /\ last.start = Cpu_default
    /\ last.path = "execute" /\ last.opcode = Some(\hFD)
    /\ last.ret = IllegalOpcode(\hFD)

\* the step from this state fetches the prefix 0xCB
ExecutesCb == Step /\ last'.path = "execute" /\ last'.opcode = Some(\hCB)

(* C20: a step that fetches 0xCB succeeds for every second byte, and       *)
(* returns 8 cycles when the low three bits of the second byte name a      *)
(* register; when they are 6, the (HL) operand, it returns 16, except for  *)
(* BIT b,(HL) (second byte 0x40..0x7F), which returns 12 and leaves the    *)
(* bus as it was but for the tick of those 12 cycles.                      *)
C20_CbCost ==
    [][ExecutesCb =>
          /\ last'.ret.ok
          /\ last'.ret.value =
                IF Operand % 8 # 6 THEN 8
                ELSE IF Operand \in \h40..\h7F THEN 12 ELSE 16
          /\ (Operand % 8 = 6 /\ Operand \in \h40..\h7F) =>
                bus' = Bus_tick(bus, 12)
      ]_vars

\* BIT 7,(HL) as the first instruction: 12 cycles, memory as it was
C20_BitHlTwelveCycles ==
    /\ steps = 1
    /\ read_byte(bus, \h0000) = \hCB /\ read_byte(bus, \h0001) = \h7E
    /\ last.path = "execute" /\ last.opcode = Some(\hCB)
    /\ last.ret = Ok(12)
    /\ cpu.pc = \h0002
    /\ DOMAIN bus.memory = {\h0000, \h0001}

(***************************************************************************)
(* GameBoy::run_steps against the caller's own loop.  The caller calls     *)
(* step() again and again, also after a step has failed; `last` keeps the  *)
(* machine the run started from, the machine each call left and the value  *)
(* each call returned, so that run_steps(n) from the first machine can be  *)
(* compared with the first n calls.                                        *)
(***************************************************************************)
InitRun ==
    \E program \in Programs, sp \in {\hFFFE, \h0000}, ime \in BOOLEAN,
       int \in InterruptSetups, tm \in TimerSetups :
        LET gb == SetUp(with_program(\h0000, program), sp, ime, int[1], int[2], tm)
        IN  /\ cpu = gb.cpu
            /\ bus = gb.bus
            /\ last = [machine |-> gb, left |-> <<>>, returned |-> <<>>]
            /\ steps = 0
            /\ requests = 0

CallStep ==
    /\ steps < MaxSteps
    /\ LET With(r) ==
               /\ cpu' = r.cpu
               /\ bus' = r.bus
               /\ last' = [last EXCEPT
                              !.left = Append(@, [cpu |-> r.cpu, bus |-> r.bus]),
                              !.returned = Append(@, r.ret)]
       IN  With(GameBoy_step([cpu |-> cpu, bus |-> bus]))
    /\ steps' = steps + 1
    /\ UNCHANGED requests

SpecRun == InitRun /\ [][CallStep]_vars

\* the first of the first n calls that failed, or 0
FirstFailure(n) ==
    IF \E i \in 1..n : ~last.returned[i].ok
    THEN CHOOSE i \in 1..n : ~last.returned[i].ok
                             /\ \A j \in 1..(i - 1) : last.returned[j].ok
    ELSE 0

RECURSIVE SumOfCycles(_)
SumOfCycles(n) == IF n = 0 THEN 0 ELSE SumOfCycles(n - 1) + last.returned[n].value

MachineAfter(n) == IF n = 0 THEN last.machine ELSE last.left[n]

\* C21: run_steps(n) from a machine is n successive calls of step(): when
\* none of them fails it leaves the machine the n-th call left and returns
\* the sum of the n cycle counts; when one fails it returns the error of the
\* first failing call and leaves the machine that call left, whatever the
\* later calls would do
C21_RunStepsIsSuccessiveSteps ==
    \A n \in 0..steps :
        LET With(run) ==
                IF FirstFailure(n) = 0
                THEN /\ run.ret = Ok(SumOfCycles(n))
                     /\ run.cpu = MachineAfter(n).cpu
                     /\ run.bus = MachineAfter(n).bus
                ELSE /\ run.ret = last.returned[FirstFailure(n)]
                     /\ ~run.ret.ok
                     /\ run.cpu = MachineAfter(FirstFailure(n)).cpu
                     /\ run.bus = MachineAfter(FirstFailure(n)).bus
        IN  With(run_steps(last.machine, n))

\* a call failed, and the caller's later calls went on from the next opcode
C21_SteppedOnAfterFailure ==
    /\ steps = 3
    /\ FirstFailure(3) = 1
    /\ last.returned[2].ok /\ last.returned[3].ok
    /\ last.left[3].cpu.pc # last.left[1].cpu.pc

(***************************************************************************)
(* Dispatch and RETI.  As in tests::services_interrupts_with_priority_and_ *)
(* reti, RETI is loaded at the interrupt vectors; the stack is over work   *)
(* RAM, over a vector, over SC and IF, or at its reset place.              *)
(***************************************************************************)
InitReti ==
    \E start \in {\h0200, \h81D9},
       sp \in {\hFFFE, \hC000, \h0000, \h0042, \h0041, \h0052, \hFF03, \hFF10},
       int \in {<<\h01, \h01>>, <<\h05, \h04>>, <<\h05, \h05>>, <<\h1F, \h1F>>},
       tm \in TimerSetups :
        LET gb == with_program(start, <<\h00>>)
            vectors ==
                load_bytes(load_bytes(load_bytes(load_bytes(load_bytes(gb.bus,
                    \h40, <<\hD9>>), \h48, <<\hD9>>), \h50, <<\hD9>>),
                    \h58, <<\hD9>>), \h60, <<\hD9>>)
        IN  InitFrom(SetUp([gb EXCEPT !.bus = vectors], sp, TRUE, int[1], int[2], tm))

SpecReti == InitReti /\ [][Next]_vars

\* the addresses Bus::read_byte and Bus::write_byte treat as registers
RegisterAddresses ==
    {SB_ADDR, SC_ADDR, DIV_ADDR, TIMA_ADDR, TMA_ADDR, TAC_ADDR, IF_ADDR, IE_ADDR}

\* a dispatch starts here with both stack bytes in ordinary memory and RETI
\* at the vector of the interrupt it takes
DispatchToReti ==
    /\ Step
    /\ cpu.ime /\ Pending # 0
    /\ {PushHi, PushLo} \cap RegisterAddresses = {}
    /\ read_byte(bus, VectorOf(LowestBit(Pending))) = \hD9

\* the dispatch step, and the step after it computed from the machine the
\* dispatch leaves
RoundTrip ==
    /\ last'.path = "dispatch"
    /\ last'.ret = Ok(20)
    /\ ~cpu'.ime
    /\ cpu'.sp = PushLo
    /\ read_word(bus', cpu'.sp) = cpu.pc
    /\ LET With(reti) ==
               /\ reti.ret = Ok(16)
               /\ reti.cpu.pc = cpu.pc
               /\ reti.cpu.sp = cpu.sp
               /\ reti.cpu.ime
               /\ reti.cpu.ime_delay = 0
       IN  With(GameBoy_step([cpu |-> cpu', bus |-> bus']))

(* C22 as stated: a dispatch from PC = p, SP = s with both stack bytes in  *)
(* ordinary memory and RETI at the vector takes 20 cycles and leaves IME   *)
(* false, SP = s-2 and p at SP; the RETI step after it takes 16 cycles and *)
(* leaves PC = p, SP = s, IME true and ime_delay = 0.                      *)
C22_DispatchRetiRoundTrip == [][DispatchToReti => RoundTrip]_vars

(* C22: the round trip holds when the pushed bytes leave RETI at the       *)
(* vector: a stack byte pushed onto the vector replaces the opcode the     *)
(* second step fetches.                                                    *)
C22_DispatchRetiRoundTripVectorKept ==
    [][DispatchToReti /\ read_byte(bus', VectorOf(LowestBit(Pending))) = \hD9
           => RoundTrip]_vars

\* a dispatch from 0x0200 with the stack at its reset place, and the RETI
\* step after it
C22_ReturnedByReti ==
    /\ steps = 2
    /\ last.path = "execute" /\ last.opcode = Some(\hD9) /\ last.ret = Ok(16)
    /\ ~last.start.ime /\ last.start.sp = \hFFFC
    /\ cpu.pc = \h0200 /\ cpu.sp = \hFFFE /\ cpu.ime /\ cpu.ime_delay = 0

(***************************************************************************)
(* The serial port and the register read masks.  The caller steps the      *)
(* machine (the program stores A to SB and to SC), and calls               *)
(* Bus::write_byte, Bus::tick, Bus::load_bytes and                         *)
(* Bus::take_serial_output in any order; `last` holds the call made last   *)
(* and what take_serial_output returned.                                   *)
(***************************************************************************)
PortWrites ==
    {<<SB_ADDR, \h41>>, <<SC_ADDR, \h81>>, <<SC_ADDR, \hFF>>, <<SC_ADDR, \h01>>,
     <<TAC_ADDR, \hFF>>, <<IF_ADDR, \hA5>>, <<IE_ADDR, \hFF>>}

\* SB and SC loaded behind the port's back
PortLoads == {<<SB_ADDR, <<\h99, \h81>>>>}

PortCall(call, address, value, returned) ==
    [call |-> call, address |-> address, value |-> value, returned |-> returned]

\* LDH (0x01),A; LDH (0x02),A; LDH (0x02),A with A = 0x81; the
\* buffer is empty, or holds a byte 0x12 sent before the run
InitPorts ==
    \E tm \in TimerSetups, sent \in BOOLEAN :
        LET gb == with_program(\h0000, <<\hE0, \h01, \hE0, \h02, \hE0, \h02>>)
            set == SetUp([gb EXCEPT !.cpu.regs.a = \h81], \hFFFE, FALSE, \h00, \h00, tm)
        IN  /\ cpu = set.cpu
            /\ bus = IF sent
                     THEN write_byte(write_byte(set.bus, SB_ADDR, \h12), SC_ADDR, \h81)
                     ELSE set.bus
            /\ last = PortCall("none", 0, 0, <<>>)
            /\ steps = 0
            /\ requests = 0

PortStep ==
    /\ steps < MaxCalls
    /\ LET With(r) == cpu' = r.cpu /\ bus' = r.bus
       IN  With(GameBoy_step([cpu |-> cpu, bus |-> bus]))
    /\ last' = PortCall("step", 0, 0, <<>>)
    /\ steps' = steps + 1
    /\ UNCHANGED requests

PortWrite ==
    /\ steps < MaxCalls
    /\ \E w \in PortWrites :
          /\ bus' = write_byte(bus, w[1], w[2])
          /\ last' = PortCall("write_byte", w[1], w[2], <<>>)
    /\ steps' = steps + 1
    /\ UNCHANGED <<cpu, requests>>

PortTick ==
    /\ steps < MaxCalls
    /\ bus' = Bus_tick(bus, 16)
    /\ last' = PortCall("tick", 0, 16, <<>>)
    /\ steps' = steps + 1
    /\ UNCHANGED <<cpu, requests>>

PortLoad ==
    /\ steps < MaxCalls
    /\ \E l \in PortLoads :
          /\ bus' = load_bytes(bus, l[1], l[2])
          /\ last' = PortCall("load_bytes", l[1], 0, <<>>)
    /\ steps' = steps + 1
    /\ UNCHANGED <<cpu, requests>>

PortTake ==
    /\ steps < MaxCalls
    /\ LET With(t) == bus' = t.bus /\ last' = PortCall("take_serial_output", 0, 0, t.output)
       IN  With(take_serial_output(bus))
    /\ steps' = steps + 1
    /\ UNCHANGED <<cpu, requests>>

NextPorts == PortStep \/ PortWrite \/ PortTick \/ PortLoad \/ PortTake

SpecPorts == InitPorts /\ [][NextPorts]_vars

Bytes == 0..255

\* C23: in every state, a write of v to SC appends the byte SB holds if and
\* only if v & 0x81 = 0x81, and SC then reads v without bit 7; any other v
\* appends nothing and SC reads v; a write to SB appends nothing
C23_SerialCapture ==
    \A v \in Bytes :
        /\ LET With(written) ==
                   IF BitAnd(v, \h81) = \h81
                   THEN /\ written.serial_output =
                               Append(bus.serial_output, read_byte(bus, SB_ADDR))
                        /\ read_byte(written, SC_ADDR) = v - 128
                   ELSE /\ written.serial_output = bus.serial_output
                        /\ read_byte(written, SC_ADDR) = v
           IN  With(write_byte(bus, SC_ADDR, v))
        /\ write_byte(bus, SB_ADDR, v).serial_output = bus.serial_output

\* 0x41 was written to SB and then 0xFF to SC: the byte is captured and SC
\* reads 0x7F
C23_CapturedByte ==
    /\ last.call = "write_byte" /\ last.address = SC_ADDR /\ last.value = \hFF
    /\ bus.serial_output = <<\h41>>
    /\ read_byte(bus, SC_ADDR) = \h7F

IsPrefix(earlier, later) ==
    /\ Len(earlier) <= Len(later)
    /\ \A i \in 1..Len(earlier) : later[i] = earlier[i]

\* C24: a step, a write_byte, a tick or a load_bytes leaves the captured
\* bytes as a prefix of the buffer; take_serial_output returns the captured
\* bytes in the order of capture and leaves the buffer empty
C24_SerialBufferAppendOnly ==
    [][/\ PortStep \/ PortWrite \/ PortTick \/ PortLoad
             => IsPrefix(bus.serial_output, bus'.serial_output)
       /\ PortTake
             => /\ last'.returned = bus.serial_output
                /\ bus'.serial_output = <<>>]_vars

\* 0x12 was sent before the run and 0x41 in it, and both were taken
C24_TookTwoBytes ==
    /\ last.call = "take_serial_output"
    /\ last.returned = <<\h12, \h41>>
    /\ bus.serial_output = <<>>

\* C25: in every state TAC reads with bits 7-3 set, IF with bits 7-5 set
\* and IE with bits 7-5 clear; and for every byte W, TAC reads
\* 0xF8 | (W & 0x07) right after W is written to it, IF reads
\* 0xE0 | (W & 0x1F) and IE reads W & 0x1F
C25_ReadMasks ==
    /\ read_byte(bus, TAC_ADDR) \in 248..255
    /\ read_byte(bus, IF_ADDR) \in 224..255
    /\ read_byte(bus, IE_ADDR) \in 0..31
    /\ \A W \in Bytes :
          /\ read_byte(write_byte(bus, TAC_ADDR, W), TAC_ADDR) = 248 + (W % 8)
          /\ read_byte(write_byte(bus, IF_ADDR, W), IF_ADDR) = 224 + (W % 32)
          /\ read_byte(write_byte(bus, IE_ADDR, W), IE_ADDR) = W % 32

\* 0xA5 was written to IF, which reads 0xE5, after 0xFF to TAC and to IE
C25_WroteAllThree ==
    /\ last.call = "write_byte" /\ last.address = IF_ADDR /\ last.value = \hA5
    /\ read_byte(bus, IF_ADDR) = \hE5
    /\ read_byte(bus, TAC_ADDR) = \hFF
    /\ read_byte(bus, IE_ADDR) = \h1F

(***************************************************************************)
(* GameBoy::with_program as a function of its arguments: the caller builds *)
(* a machine from a start address and a byte slice, any number of times.   *)
(***************************************************************************)
MaxLen == 4

LoadStarts ==
    {\h0000, \h0100, \hC000, \hFF01, \hFF04, \hFF0D, \hFFFC, \hFFFE, \hFFFF}

LoadSlices ==
    UNION {[1..n -> {\h00, \hA7}] : n \in 0..MaxLen}

\* GameBoy::new()
InitLoad ==
    /\ cpu = Cpu_default
    /\ bus = Bus_default
    /\ last = [built |-> FALSE, start |-> 0, program |-> <<>>]
    /\ steps = 0
    /\ requests = 0

WithProgram ==
    /\ \E start \in LoadStarts, program \in LoadSlices :
          LET With(gb) ==
                  /\ cpu' = gb.cpu
                  /\ bus' = gb.bus
                  /\ last' = [built |-> TRUE, start |-> start, program |-> program]
          IN  With(with_program(start, program))
    /\ UNCHANGED <<steps, requests>>

SpecLoad == InitLoad /\ [][WithProgram]_vars

Addresses == 0..65535

Min(x, y) == IF x < y THEN x ELSE y

\* the addresses the loaded bytes cover
Loaded ==
    {last.start + i : i \in 0..(Min(Len(last.program), 65536 - last.start) - 1)}

\* PC at the start address and the rest of the cpu, the timer, IF, IE and
\* the serial buffer as at reset
ResetButPc ==
    /\ cpu.pc = last.start
    /\ cpu.sp = \hFFFE
    /\ \A r \in {"a", "b", "c", "d", "e", "h", "l", "f"} : cpu.regs[r] = 0
    /\ ~cpu.ime /\ ~cpu.halted /\ ~cpu.stopped /\ ~cpu.halt_bug
    /\ cpu.ime_delay = 0

(* C26 as stated: after with_program(start, bytes) PC is start, SP is      *)
(* 0xFFFE, registers and mode flags are zero, read_byte(start + i) is      *)
(* bytes[i] for every i < min(len, 0x10000 - start), and every other       *)
(* address reads its reset value.                                          *)
C26_WithProgramReadsBack ==
    last.built =>
        /\ ResetButPc
        /\ \A a \in Addresses :
              read_byte(bus, a) = IF a \in Loaded
                                  THEN last.program[a - last.start + 1]
                                  ELSE read_byte(Bus_default, a)

(* C26: the bytes are copied into the backing memory, which read_byte does *)
(* not read at DIV, TIMA, TMA, TAC, IF and IE: these read their reset      *)
(* values, every other loaded address reads its byte, and every address    *)
(* outside the range reads its reset value.                                *)
C26_WithProgramReadsBackMemory ==
    last.built =>
        /\ ResetButPc
        /\ \A a \in Addresses :
              read_byte(bus, a) =
                  IF a \in Loaded \ {DIV_ADDR, TIMA_ADDR, TMA_ADDR, TAC_ADDR,
                                      IF_ADDR, IE_ADDR}
                  THEN last.program[a - last.start + 1]
                  ELSE read_byte(Bus_default, a)

\* four bytes at 0xFFFE: two are loaded and two are dropped
C26_TruncatedAtTop ==
    /\ last.built
    /\ last.start = \hFFFE /\ last.program = <<\hA7, \hA7, \hA7, \hA7>>
    /\ read_byte(bus, \hFFFE) = \hA7
    /\ read_byte(bus, \h0000) = \h00

\* the step executes the opcode
Executes(opcode) == last'.path = "execute" /\ last'.opcode = Some(opcode)

\* the step executes an instruction and the delay EI started runs out
\* after it
EiDelayExpires ==
    /\ last'.path = "execute" /\ last'.ret.ok
    /\ cpu.ime_delay = 1 /\ cpu'.ime_delay = 0

\* C27: IME goes from false to true only in a step that executes RETI or in
\* which the EI delay runs out, and from true to false only in a step that
\* executes DI or dispatches an interrupt; DI and a dispatch leave IME false
\* and ime_delay 0, also right after EI
C27_ImeTransitions ==
    [][/\ ~cpu.ime /\ cpu'.ime => Step /\ (Executes(\hD9) \/ EiDelayExpires)
       /\ cpu.ime /\ ~cpu'.ime => Step /\ (Executes(\hF3) \/ last'.path = "dispatch")
       /\ Step /\ (Executes(\hF3) \/ last'.path = "dispatch")
             => ~cpu'.ime /\ cpu'.ime_delay = 0]_vars

\* EI and then DI, with IME false before and after
C27_DiAfterEi ==
    /\ last.path = "execute" /\ last.opcode = Some(\hF3)
    /\ ~last.start.ime /\ last.start.ime_delay = 1
    /\ ~cpu.ime /\ cpu.ime_delay = 0

\* writes to DIV and of every value to TAC
EdgeWrites == {<<DIV_ADDR, \h00>>} \cup {<<TAC_ADDR, v>> : v \in 0..7}

\* the write, made in this state, produces a falling edge that increments
\* TIMA from 0xFF
WriteOverflows(w) ==
    /\ bus.timer.tima = \hFF
    /\ Input(bus.timer.tac, bus.timer.divider)
    /\ \/ w[1] = DIV_ADDR
       \/ w[1] = TAC_ADDR /\ ~Input(w[2], bus.timer.divider)

\* TIMA reads 0 and IF is as the write left it for the first `idle` cycles
\* ticked after the write, and the next cycle sets TIMA to TMA and IF bit 2
ReloadsAfter(written, idle) ==
    /\ read_byte(written, TIMA_ADDR) = \h00
    /\ \A i \in 1..idle :
          LET With(ticked) ==
                  /\ read_byte(ticked, TIMA_ADDR) = \h00
                  /\ ticked.interrupt_flags = written.interrupt_flags
          IN  With(Bus_tick(written, i))
    /\ LET With(ticked) ==
               /\ read_byte(ticked, TIMA_ADDR) = read_byte(written, TMA_ADDR)
               /\ Bit(ticked.interrupt_flags, 2) = 1
       IN  With(Bus_tick(written, idle + 1))

(* C28 as stated: when a write to DIV or to TAC produces the falling edge  *)
(* that increments TIMA from 0xFF, TIMA is reloaded from TMA and IF bit 2  *)
(* is set on the 4th timer cycle ticked after the write, as for an         *)
(* overflow produced by a tick.                                            *)
C28_WriteOverflowReloadsOnFourthCycle ==
    \A w \in EdgeWrites :
        WriteOverflows(w) => ReloadsAfter(write_byte(bus, w[1], w[2]), 3)

\* what the code does: after such a write TIMA reads 0 and IF is unchanged
\* for 4 timer cycles, and the 5th cycle ticked after the write reloads TIMA
\* from TMA and sets IF bit 2.  write_div and write_tac start the delay at 4
\* and do not call handle_reload, while the tick cycle that overflows counts
\* the delay down once itself.
WriteOverflowReloadsOnFifthCycle ==
    \A w \in EdgeWrites :
        WriteOverflows(w) => ReloadsAfter(write_byte(bus, w[1], w[2]), 4)

(* C29 as stated: halt_bug and ime are not both true in any state between *)
(* steps, and a step that starts with halt_bug set is never a dispatch: it *)
(* fetches the instruction after the HALT that set it.                     *)
C29_HaltBugNeverWithIme ==
    /\ [](~(cpu.halt_bug /\ cpu.ime))
    /\ [][Step /\ cpu.halt_bug => last'.path = "execute"]_vars

\* the last step executed HALT with IME false and the EI delay at 1: EI was
\* the instruction before it
AfterHaltAfterEi ==
    /\ last.path = "execute" /\ last.opcode = Some(\h76)
    /\ ~last.start.ime /\ last.start.ime_delay = 1

(* C29: halt_bug and ime are both true only after a HALT executed right    *)
(* after EI, whose delay runs out in the HALT step; the step after it is a *)
(* dispatch that leaves halt_bug set, so that the non-advancing fetch is   *)
(* made at the interrupt vector.  With IME false, a step that starts with  *)
(* halt_bug set fetches the instruction after the HALT.                    *)
C29_HaltBugWithImeOnlyAfterEi ==
    /\ [](cpu.halt_bug /\ cpu.ime => AfterHaltAfterEi)
    /\ [][/\ Step /\ cpu.halt_bug /\ ~cpu.ime
                => last'.path = "execute" /\ last'.start.pc = cpu.pc
       /\ Step /\ cpu.halt_bug /\ cpu.ime
                => last'.path = "dispatch" /\ cpu'.halt_bug]_vars

\* EI, HALT, the dispatch to 0x0040, and the opcode there fetched without
\* advancing PC
C29_VectorFetchedTwice ==
    /\ steps = 4
    /\ last.path = "execute" /\ last.start.halt_bug
    /\ last.start.pc = \h0040 /\ cpu.pc = \h0040
    /\ ~cpu.halt_bug

(***************************************************************************)
(* The machine left to run.  The program halts, stops, or halts and then   *)
(* stops, and then spins on a JP to itself, and so does the handler at the *)
(* timer vector; the timer runs with the Timer bit set in IE, and nothing  *)
(* but step() touches the machine.  The caller goes on calling step() for  *)
(* ever, as the loop of run_steps does for as long as it is asked to.      *)
(***************************************************************************)
InitWake ==
    \E program \in {<<\h76, \hC3, \h01, \h00>>, <<\h10, \h00, \hC3, \h02, \h00>>,
                    <<\h76, \h10, \h00, \hC3, \h03, \h00>>},
       ime \in BOOLEAN, tac \in {\h05, \h07}, tima \in {\hFE} :
        LET gb == with_program(\h0000, program)
            vector == load_bytes(gb.bus, \h50, <<\hC3, \h50, \h00>>)
        IN  InitFrom(SetUp([gb EXCEPT !.bus = vector], \hFFFE, ime,
                           INTERRUPT_TIMER, \h00, <<tac, tima, \hFF>>))

StepOn ==
    /\ LET With(r) ==
               /\ cpu' = r.cpu
               /\ bus' = r.bus
               /\ last' = [start |-> cpu, pending |-> pending_interrupts(bus),
                           path |-> r.path, opcode |-> r.opcode, ret |-> r.ret]
       IN  With(Cpu_step(cpu, bus))
    /\ steps' = 1 - steps
    /\ UNCHANGED requests

\* `steps` is the parity of the number of calls: a call of step is a change
\* of `steps`, and the caller's next call is always possible
Called == steps' = 1 - steps

SpecWake == InitWake /\ [][StepOn]_vars /\ WF_steps(Called)

\* halted or stopped, with the timer enabled and the Timer bit set in IE
Sleeping ==
    /\ cpu.halted \/ cpu.stopped
    /\ TimerEnabled(bus.timer.tac)
    /\ Bit(bus.interrupt_enable, 2) = 1

\* the last step started halted or stopped with the timer interrupt pending
\* and did not idle: it dispatched, or executed the instruction at PC (a
\* STOP there stops the cpu again, until its next step)
WokenByTimer ==
    /\ last.start.halted \/ last.start.stopped
    /\ Bit(last.pending, 2) = 1
    /\ last.path \in {"dispatch", "execute"}
    /\ ~cpu.halted
    /\ cpu.stopped => last.opcode = Some(\h10)

\* C30: a cpu halted or stopped with the timer enabled and the Timer bit set
\* in IE is woken by the timer after finitely many steps: IF bit 2 is set
\* and the next step does not idle; every idle step advances the divider by
\* 4 cycles
C30_TimerWakes ==
    /\ Sleeping ~> (Sleeping /\ Bit(bus.interrupt_flags, 2) = 1)
    /\ Sleeping ~> WokenByTimer
    /\ [][StepOn /\ Idle(last'.path)
             => /\ cpu.halted \/ cpu.stopped
                /\ last'.ret = Ok(4)
                /\ bus'.timer.divider = (bus.timer.divider + 4) % 65536]_vars

\* STOP, idle steps until TIMA overflowed and was reloaded, and the step
\* that woke and dispatched to the timer vector
C30_WokenFromStop ==
    /\ last.start.stopped /\ last.path = "dispatch"
    /\ Bit(last.pending, 2) = 1
    /\ ~cpu.stopped /\ cpu.pc = \h0050

(* C31 as stated: between steps ime_delay is 0 or 1; it is 1 only directly *)
(* after a step that executed EI; and it is 0 whenever halted or stopped   *)
(* is true.                                                                *)
C31_ImeDelayOnlyAfterEi ==
    /\ cpu.ime_delay \in {0, 1}
    /\ cpu.ime_delay = 1 => last.path = "execute" /\ last.opcode = Some(\hFB)
    /\ cpu.halted \/ cpu.stopped => cpu.ime_delay = 0

(* C31: ime_delay is 1 directly after a step that executed EI, and also    *)
(* after a step that started with ime_delay = 1 and failed on an illegal   *)
(* opcode, which returns before advance_ime_delay; it is never 2 between   *)
(* steps and it is 0 whenever halted or stopped is true.                   *)
C31_ImeDelayAfterEiOrFailure ==
    /\ cpu.ime_delay \in {0, 1}
    /\ cpu.ime_delay = 1 =>
          \/ last.path = "execute" /\ last.opcode = Some(\hFB) /\ last.ret.ok
          \/ last.path = "execute" /\ ~last.ret.ok /\ last.start.ime_delay = 1
    /\ cpu.halted \/ cpu.stopped => cpu.ime_delay = 0

\* EI and then the illegal opcode 0xD3: the delay is still 1
C31_DelayKeptByIllegalOpcode ==
    /\ steps = 2
    /\ last.path = "execute" /\ last.opcode = Some(\hD3) /\ ~last.ret.ok
    /\ last.start.ime_delay = 1
    /\ cpu.ime_delay = 1 /\ ~cpu.ime

\* C32: a HALT-idle or STOP-idle step returns 4 and leaves the whole cpu
\* (PC, SP, registers and flags, IME, ime_delay, halt_bug, halted, stopped),
\* the backing memory, IE, the serial buffer, TMA and TAC unchanged; of IF
\* only bit 2 may change, by being set
C32_IdleStepFrame ==
    [][Step /\ Idle(last'.path) =>
          /\ cpu.halted \/ cpu.stopped
          /\ last'.ret = Ok(4)
          /\ cpu' = cpu
          /\ bus'.memory = bus.memory
          /\ bus'.interrupt_enable = bus.interrupt_enable
          /\ bus'.serial_output = bus.serial_output
          /\ bus'.timer.tma = bus.timer.tma
          /\ bus'.timer.tac = bus.timer.tac
          /\ bus'.interrupt_flags \in
                {bus.interrupt_flags, BitOr(bus.interrupt_flags, INTERRUPT_TIMER)}
      ]_vars

\* an idle step of HALT in which TIMA was reloaded and IF bit 2 set
C32_IdleStepRaisedTimer ==
    /\ last.path = "halt_idle" /\ last.pending = 0
    /\ cpu.halted /\ cpu = last.start
    /\ Bit(bus.interrupt_flags, 2) = 1
    /\ bus.timer.tima = bus.timer.tma

\* one cycle of tick, from `pre` to `post`: IF is left alone or gets bit 2,
\* and gets it only when the cycle finds the reload due (the delay an
\* overflow started has run down to 0 and TIMA reads 0) and reloads TIMA
\* from TMA; TMA and TAC are left alone
FlagCycle(pre, post) ==
    /\ post.interrupt_flags \in
          {pre.interrupt_flags, BitOr(pre.interrupt_flags, INTERRUPT_TIMER)}
    /\ post.interrupt_flags # pre.interrupt_flags =>
          /\ pre.timer.overflow_reload_delay = Some(0)
          /\ pre.timer.tima = \h00
          /\ post.timer.tima = pre.timer.tma
          /\ post.timer.overflow_reload_delay = None
    /\ post.timer.tma = pre.timer.tma
    /\ post.timer.tac = pre.timer.tac

\* C33: Bus::tick(n) changes IF only by setting bit 2, and only on a cycle
\* on which TIMA is reloaded from TMA after an overflow; it clears no bit
\* of IF and leaves IE, the backing memory, TMA, TAC and the serial buffer
\* unchanged
C33_TickFrame ==
    [][\A cycles \in TickCycles :
          Tick(cycles) =>
             /\ \A i \in 1..cycles : FlagCycle(Cycle(i - 1), Cycle(i))
             /\ bus'.interrupt_flags = Cycle(cycles).interrupt_flags
             /\ bus'.timer = Cycle(cycles).timer
             /\ bus'.interrupt_enable = bus.interrupt_enable
             /\ bus'.memory = bus.memory
             /\ bus'.serial_output = bus.serial_output
      ]_vars

\* a call of tick set IF bit 2, which was clear before it, and reloaded
\* TIMA; the byte written to 0xC000 is still there
C33_TickRaisedTimer ==
    /\ steps = 3
    /\ last.since # None /\ Unwrap(last.since) >= 4
    /\ bus.interrupt_flags = INTERRUPT_TIMER
    /\ bus.timer.tima = \hAC
    /\ read_byte(bus, \hC000) = \hFF

\* the condition an opcode's bits 4-3 name, read from the flags: NZ, Z, NC, C
Taken(opcode, f) ==
    CASE (opcode \div 8) % 4 = 0 -> Bit(f, 7) = 0
      [] (opcode \div 8) % 4 = 1 -> Bit(f, 7) = 1
      [] (opcode \div 8) % 4 = 2 -> Bit(f, 4) = 0
      [] (opcode \div 8) % 4 = 3 -> Bit(f, 4) = 1

\* JR cc, JP cc, CALL cc, RET cc: opcode set, length in bytes, cycles when
\* taken and cycles when not
ConditionalFlow ==
    {[opcodes |-> {\h20, \h28, \h30, \h38}, length |-> 2, taken |-> 12, not |-> 8],
     [opcodes |-> {\hC2, \hCA, \hD2, \hDA}, length |-> 3, taken |-> 16, not |-> 12],
     [opcodes |-> {\hC4, \hCC, \hD4, \hDC}, length |-> 3, taken |-> 24, not |-> 12],
     [opcodes |-> {\hC0, \hC8, \hD0, \hD8}, length |-> 1, taken |-> 20, not |-> 8]}

\* C34: JR cc, JP cc, CALL cc and RET cc, cc decoded from opcode bits 4-3,
\* return 12 / 16 / 24 / 20 cycles when the condition holds and 8 / 12 /
\* 12 / 8 when it does not; when it does not, PC ends just past the operand
\* bytes (the opcode fetch itself not advancing PC under the halt bug) and
\* SP and the memory are unchanged
C34_ConditionalFlow ==
    [][Step => \A kind \in ConditionalFlow : \A opcode \in kind.opcodes :
          Executes(opcode) =>
             IF Taken(opcode, cpu.regs.f)
             THEN last'.ret = Ok(kind.taken)
             ELSE /\ last'.ret = Ok(kind.not)
                  /\ cpu'.pc = Wrap16(cpu.pc + kind.length
                                        - (IF cpu.halt_bug THEN 1 ELSE 0))
                  /\ cpu'.sp = cpu.sp
                  /\ bus'.memory = bus.memory
      ]_vars

\* CALL C with C clear: not taken, 12 cycles, PC past the address, SP kept
C34_CallNotTaken ==
    /\ steps = 1
    /\ last.opcode = Some(\hDC)
    /\ last.start.regs.f = \h00
    /\ last.ret = Ok(12)
    /\ cpu.pc = \h0003
    /\ cpu.sp = last.start.sp

\* the register an index names; index 6 names none
Register(regs, index) ==
    CASE index = 0 -> regs.b [] index = 1 -> regs.c [] index = 2 -> regs.d
      [] index = 3 -> regs.e [] index = 4 -> regs.h [] index = 5 -> regs.l
      [] index = 7 -> regs.a

\* the operand an index names at the start of the step: the register, or
\* the byte read_byte gives at HL
OperandAt(index) ==
    IF index = 6 THEN read_byte(bus, hl(cpu.regs)) ELSE Register(cpu.regs, index)

\* the step left the operand an index names holding `value`, at the cost
\* of `cycles`: the register, or the bus after write_byte at HL
Stored(index, value, cycles) ==
    IF index = 6
    THEN bus' = Bus_tick(write_byte(bus, hl(cpu.regs), value), cycles)
    ELSE Register(cpu'.regs, index) = value

HlCycles(opcode, cycles) ==
    LET source == opcode % 8
        destination == (opcode \div 8) % 8
    IN  CASE opcode \in \h40..\h7F /\ opcode # \h76 ->
               /\ cycles = (IF source = 6 \/ destination = 6 THEN 8 ELSE 4)
               /\ Stored(destination, OperandAt(source), 8)
          [] opcode \in \h80..\hBF ->
               /\ cycles = (IF source = 6 THEN 8 ELSE 4)
               /\ opcode \in \h80..\h87 =>
                     cpu'.regs.a = Wrap8(cpu.regs.a + OperandAt(source))
               /\ opcode \in \h90..\h97 =>
                     cpu'.regs.a = Wrap8(cpu.regs.a + 256 - OperandAt(source))
               /\ opcode \in \hA0..\hA7 =>
                     cpu'.regs.a = BitAnd(cpu.regs.a, OperandAt(source))
               /\ opcode \in \hA8..\hAF =>
                     cpu'.regs.a = BitXor(cpu.regs.a, OperandAt(source))
               /\ opcode \in \hB0..\hB7 =>
                     cpu'.regs.a = BitOr(cpu.regs.a, OperandAt(source))
          [] opcode < \h40 /\ opcode % 8 = 4 ->
               /\ cycles = (IF destination = 6 THEN 12 ELSE 4)
               /\ Stored(destination, Wrap8(OperandAt(destination) + 1), 12)
          [] opcode < \h40 /\ opcode % 8 = 5 ->
               /\ cycles = (IF destination = 6 THEN 12 ELSE 4)
               /\ Stored(destination, Wrap8(OperandAt(destination) + 255), 12)
          [] opcode < \h40 /\ opcode % 8 = 6 ->
               /\ cycles = (IF destination = 6 THEN 12 ELSE 8)
               /\ Stored(destination, Operand, 12)
          [] OTHER -> TRUE

\* C35: in LD r,r' (0x76 is HALT, not a load), ALU A,r, INC r, DEC r and
\* LD r,d8, register index 6 names the byte at HL, read with read_byte and
\* written with write_byte; the step returns 8 instead of 4 cycles for
\* ALU A,r and for LD r,r' (either operand), 12 instead of 8 for LD r,d8
\* and 12 instead of 4 for INC r and DEC r
C35_HlOperand ==
    [][Step /\ last'.path = "execute" =>
          /\ last'.opcode # None
          /\ HlCycles(Unwrap(last'.opcode), last'.ret.value)
      ]_vars

\* INC (HL) with HL at IF: the operand read is 0xE0, the byte written 0xE1,
\* so the step requested VBlank; 12 cycles
C35_IncrementedIf ==
    /\ steps = 1
    /\ last.opcode = Some(\h34)
    /\ hl(last.start.regs) = IF_ADDR
    /\ last.ret = Ok(12)
    /\ bus.interrupt_flags = INTERRUPT_VBLANK

\* C36: every successful step returns 4, 8, 12, 16, 20 or 24 cycles: an
\* interrupt dispatch exactly 20, an idle step exactly 4, and no
\* instruction 0 or a value that is not a multiple of 4
C36_CyclesReturned ==
    [][Step /\ last'.ret.ok =>
          /\ last'.ret.value \in {4, 8, 12, 16, 20, 24}
          /\ last'.path = "dispatch" => last'.ret.value = 20
          /\ Idle(last'.path) => last'.ret.value = 4
          /\ last'.path = "execute" =>
                last'.ret.value # 0 /\ last'.ret.value % 4 = 0
      ]_vars

\* a dispatch after an instruction: 20 cycles
C36_DispatchedAfterInstruction ==
    /\ steps >= 2
    /\ last.path = "dispatch"
    /\ last.ret = Ok(20)

(***************************************************************************)
(* Writes to SC.  Every opcode runs at 0x8180 (so a pushed PC has bits 7   *)
(* and 0 set in both bytes) with BC, DE, HL and the immediate address at   *)
(* SC or SB, A = 0x81, SB holding 0x41 and the stack just above SC.        *)
(***************************************************************************)
SerialPrograms ==
    {<<op, x, \hFF>> : op \in \h00..\hFF, x \in {\h01, \h02}}
        \cup {<<\hCB, op, \hFF>> : op \in \h00..\hFF}

InitSerial ==
    \E program \in SerialPrograms, sp \in {\hFF03, \hFF04}, ime \in BOOLEAN :
        LET gb == with_program(\h8180, program)
            regs == [a |-> \h81, b |-> \hFF, c |-> \h02, d |-> \hFF, e |-> \h02,
                     h |-> \hFF, l |-> \h02, f |-> \h90]
            sb == write_byte(gb.bus, SB_ADDR, \h41)
        IN  InitFrom([cpu |-> [gb.cpu EXCEPT !.regs = regs, !.sp = sp, !.ime = ime],
                      bus |-> write_byte(sb, IE_ADDR, \h05)])

SpecSerial == InitSerial /\ [][Next]_vars

\* C37: a single step appends at most one byte to the serial capture
\* buffer, whatever it executes (the two-byte writers PUSH, CALL, RST and
\* LD (a16),SP among them) or dispatches and whatever the addresses written
C37_OneSerialBytePerStep ==
    [][Step =>
          /\ IsPrefix(bus.serial_output, bus'.serial_output)
          /\ Len(bus'.serial_output) <= Len(bus.serial_output) + 1
      ]_vars

\* RST 0x38 with SP = 0xFF03 pushed 0x8181, the high byte into SC and the
\* low byte into SB: one byte captured, the one SB held before the push
C37_PushedOverSerial ==
    /\ steps = 1
    /\ last.opcode = Some(\hFF)
    /\ last.start.sp = \hFF03
    /\ cpu.sp = \hFF01
    /\ bus.serial_output = <<\h41>>
    /\ read_byte(bus, SB_ADDR) = \h81

\* the register pair PUSH 0xC5/0xD5/0xE5/0xF5 pushes and the POP four
\* below it pops
Pair(regs, push) ==
    CASE push = \hC5 -> bc(regs) [] push = \hD5 -> de(regs)
      [] push = \hE5 -> hl(regs) [] push = \hF5 -> af(regs)

\* C38: PUSH rr with both stack bytes in ordinary memory takes SP down by
\* 2 and writes the pair little-endian, the high byte at SP+1; when the
\* next step executes POP rr, it leaves rr and SP as they were before the
\* PUSH.  POP AF of a stack word w leaves AF = w & 0xFFF0.
C38_PushPopRoundTrip ==
    [][Step =>
          /\ \A push \in {\hC5, \hD5, \hE5, \hF5} :
                /\ Executes(push)
                /\ Wrap16(cpu.sp + 65535) \notin RegisterAddresses
                /\ Wrap16(cpu.sp + 65534) \notin RegisterAddresses
                => /\ cpu'.sp = Wrap16(cpu.sp + 65534)
                   /\ cpu'.regs = cpu.regs
                   /\ read_byte(bus', Wrap16(cpu'.sp + 1)) = HiByte(Pair(cpu.regs, push))
                   /\ read_byte(bus', cpu'.sp) = LoByte(Pair(cpu.regs, push))
                   /\ LET With(pop) ==
                              pop.path = "execute" /\ pop.opcode = Some(push - 4)
                              => /\ pop.ret = Ok(12)
                                 /\ Pair(pop.cpu.regs, push) = Pair(cpu.regs, push)
                                 /\ pop.cpu.regs = cpu.regs
                                 /\ pop.cpu.sp = cpu.sp
                      IN  With(Cpu_step(cpu', bus'))
          /\ Executes(\hF1) =>
                /\ cpu'.regs.a = read_byte(bus, Wrap16(cpu.sp + 1))
                /\ cpu'.regs.f = BitAnd(read_byte(bus, cpu.sp), \hF0)
                /\ af(cpu'.regs) =
                      BitAnd(HiByte(read_word(bus, cpu.sp)), \hFF) * 256
                        + BitAnd(LoByte(read_word(bus, cpu.sp)), \hF0)
      ]_vars

\* PUSH BC then POP BC from SP = 0xFFFE: BC = 0xFF0F is in memory at
\* 0xFFFC, low byte first, and BC and SP are as before
C38_PushedAndPopped ==
    /\ steps = 2
    /\ last.opcode = Some(\hC1)
    /\ last.start.sp = \hFFFC
    /\ cpu.sp = \hFFFE
    /\ bc(cpu.regs) = \hFF0F
    /\ read_byte(bus, \hFFFC) = \h0F
    /\ read_byte(bus, \hFFFD) = \hFF

(***************************************************************************)
(* DAA.  As in tests::daa_handles_add_sub_and_carry_edge_cases, A and F    *)
(* are set directly before DAA runs: here every A with every Z, N, H, C.   *)
(***************************************************************************)
InitDaa ==
    \E a \in 0..255, flags \in 0..15 :
        LET gb == with_program(\h0000, <<\h27, \h27>>)
        IN  InitFrom([gb EXCEPT !.cpu.regs.a = a, !.cpu.regs.f = flags * 16])

SpecDaa == InitDaa /\ [][Next]_vars

\* A after DAA, from A and the flags N, H, C (0 or 1) before it
Adjusted(a, n, h, c) ==
    IF n = 0
    THEN (a + (IF h = 1 \/ a % 16 > 9 THEN 6 ELSE 0)
            + (IF c = 1 \/ a > 153 THEN 96 ELSE 0)) % 256
    ELSE (a + 512 - (IF h = 1 THEN 6 ELSE 0) - (IF c = 1 THEN 96 ELSE 0)) % 256

\* C after DAA: set on entry, or the high correction of an addition applied
AdjustedCarry(a, n, c) == IF c = 1 \/ (n = 0 /\ a > 153) THEN 1 ELSE 0

\* C39: DAA computes A by the rule (N=0: add 0x06 if H or low nibble > 9,
\* add 0x60 if C or A > 0x99; N=1: subtract 0x06 if H, 0x60 if C; mod 256),
\* then sets Z = (A == 0), H = 0, leaves N unchanged, and sets C iff it was
\* set on entry or the N=0 high correction applied; C is never cleared
C39_Daa ==
    [][Step /\ Executes(\h27) =>
          LET a == cpu.regs.a
              n == Bit(cpu.regs.f, 6)
              h == Bit(cpu.regs.f, 5)
              c == Bit(cpu.regs.f, 4)
          IN  /\ last'.ret = Ok(4)
              /\ cpu'.regs.a = Adjusted(a, n, h, c)
              /\ cpu'.regs.f =
                    (IF Adjusted(a, n, h, c) = 0 THEN 128 ELSE 0)
                      + n * 64 + AdjustedCarry(a, n, c) * 16
              /\ c = 1 => Bit(cpu'.regs.f, 4) = 1
              /\ cpu'.regs = [cpu.regs EXCEPT !.a = cpu'.regs.a, !.f = cpu'.regs.f]
      ]_vars

\* DAA of 0x9A with no flag set: both corrections, A = 0x00, Z and C set
C39_AdjustedToZero ==
    /\ steps = 1
    /\ last.opcode = Some(\h27)
    /\ last.start.regs.a = \h9A
    /\ last.start.regs.f = \h00
    /\ cpu.regs.a = \h00
    /\ cpu.regs.f = \h90

(***************************************************************************)
(* SP-offset arithmetic.  ADD SP,e and LD HL,SP+e run with every immediate *)
(* byte from stack pointers around the nibble, byte and word boundaries.   *)
(***************************************************************************)
SpValues ==
    {\h0000, \h0001, \h000F, \h0010, \h00F1, \h00FF, \h0100, \h0FFF,
     \h1234, \h7FFF, \h8000, \hABCD, \hFF80, \hFFF0, \hFFFE, \hFFFF}

InitSpOffset ==
    \E opcode \in {\hE8, \hF8}, e \in 0..255, sp \in SpValues :
        LET gb == with_program(\h0000, <<opcode, e>>)
        IN  InitFrom([gb EXCEPT !.cpu.sp = sp])

SpecSpOffset == InitSpOffset /\ [][Next]_vars

\* (SP + sign_extend(e)) mod 2^16
SpPlus(sp, e) == (sp + e + (IF e >= 128 THEN 65536 - 256 ELSE 0)) % 65536

\* the carries of the unsigned byte addition: out of bit 3 and out of bit 7
HalfCarryOut(sp, e) == (sp % 16) + (e % 16) > 15
CarryOut(sp, e) == (sp % 256) + e > 255

\* C40: ADD SP,e and LD HL,SP+e compute (SP + sign_extend(e)) mod 2^16 with
\* Z = 0, N = 0, H the carry out of bit 3 of (SP & 0x0F) + (e & 0x0F) and C
\* the carry out of bit 7 of (SP & 0xFF) + e as unsigned bytes, which are
\* bits 4 and 8 of sp ^ off ^ result; ADD SP,e stores the result in SP and
\* takes 16 cycles, LD HL,SP+e stores it in HL, leaves SP unchanged and
\* takes 12
C40_SpOffset ==
    [][Step /\ (Executes(\hE8) \/ Executes(\hF8)) =>
          LET sp == cpu.sp
              e == Operand
              result == SpPlus(sp, e)
              x == BitXor(BitXor(sp, SignExtend(e)), result)
              flags == (IF HalfCarryOut(sp, e) THEN 32 ELSE 0)
                          + (IF CarryOut(sp, e) THEN 16 ELSE 0)
          IN  /\ HalfCarryOut(sp, e) <=> BitAnd(x, \h0010) # 0
              /\ CarryOut(sp, e) <=> BitAnd(x, \h0100) # 0
              /\ cpu'.regs.f = flags
              /\ Executes(\hE8) =>
                    /\ last'.ret = Ok(16)
                    /\ cpu'.sp = result
                    /\ cpu'.regs = [cpu.regs EXCEPT !.f = flags]
              /\ Executes(\hF8) =>
                    /\ last'.ret = Ok(12)
                    /\ cpu'.sp = sp
                    /\ hl(cpu'.regs) = result
                    /\ cpu'.regs = [cpu.regs EXCEPT !.h = HiByte(result),
                                                    !.l = LoByte(result),
                                                    !.f = flags]
      ]_vars

\* ADD SP,-1 from SP = 0x0001: SP = 0x0000 with H and C set and Z clear
C40_AddedMinusOne ==
    /\ steps = 1
    /\ last.opcode = Some(\hE8)
    /\ last.start.sp = \h0001
    /\ cpu.sp = \h0000
    /\ cpu.regs.f = \h30

====
